---- MODULE Spec2Model ----
(***************************************************************************)
(* A model of eastl::bitvector (src/bitvector.h): a sequence of booleans   *)
(* packed into words of kBitCount bits, with its bit proxy, its iterators, *)
(* MoveBits and the container operations.  The word store (eastl::vector)  *)
(* is not part of the sources; it is modelled from its interface.          *)
(***************************************************************************)
EXTENDS Integers, Sequences, FiniteSets, TLC

\* kBitCount = 8 * sizeof(Element), Element being a template parameter; the
\* model's Element is a word of 3 bits.
kBitCount == 3
\* Largest number of words the word store holds in the model.
MaxWords == 2
\* size_type is an unsigned integer; its arithmetic wraps modulo kSizeTypeMod
\* (2^16 here, far above every size of the model).
kSizeTypeMod == 65536
\* Longest sequences that the comparison operators are applied to.
MaxCmpBits == 4

MaxBits == MaxWords * kBitCount
\* Longest source range of assign and of the range constructor.
MaxSrc == kBitCount + 1
npos == kSizeTypeMod - 1
WordMax == (2 ^ kBitCount) - 1
Words == 0 .. WordMax

VARIABLES mContainer, mFreeBitCount, mCapacity, mpBegin, other, config, tree, last
vars == <<mContainer, mFreeBitCount, mCapacity, mpBegin, other, config, tree, last>>

(***************************************************************************)
(* Word arithmetic: the bitwise operators of Element, computed bit by bit. *)
(***************************************************************************)
WordBit(w, i) == (w \div (2 ^ i)) % 2

RECURSIVE BitAndFrom(_, _, _)
BitAndFrom(a, b, i) ==
    IF i = kBitCount THEN 0
    ELSE (WordBit(a, i) * WordBit(b, i)) * (2 ^ i) + BitAndFrom(a, b, i + 1)
BitAnd(a, b) == BitAndFrom(a, b, 0)

RECURSIVE BitOrFrom(_, _, _)
BitOrFrom(a, b, i) ==
    IF i = kBitCount THEN 0
    ELSE (IF WordBit(a, i) + WordBit(b, i) > 0 THEN 2 ^ i ELSE 0) + BitOrFrom(a, b, i + 1)
BitOr(a, b) == BitOrFrom(a, b, 0)

BitNot(a) == WordMax - a

\* Element(1) << i, truncated to the width of Element.
ShiftLeftOne(i) == (2 ^ i) % (2 ^ kBitCount)

(***************************************************************************)
(* The word store's addresses.  A bitvector object is a record             *)
(*   [mContainer, mFreeBitCount, mCapacity, mpBegin];                      *)
(* word k of the store lives at address mpBegin + k.  A reallocation moves *)
(* the store to the other arena.                                           *)
(***************************************************************************)
Arena(k) == k * (MaxWords + 2)
OtherArena(a) == IF a = Arena(1) THEN Arena(2) ELSE Arena(1)

InStore(bv, addr) == addr >= bv.mpBegin /\ addr < bv.mpBegin + Len(bv.mContainer)
WordAt(bv, addr) == bv.mContainer[addr - bv.mpBegin + 1]
StoreWord(bv, addr, w) == [bv EXCEPT !.mContainer[addr - bv.mpBegin + 1] = w]

(***************************************************************************)
(* bitvector_reference                                                     *)
(***************************************************************************)
Ref(p, i) == [mpBitWord |-> p, mnBitIndex |-> i]

RefToBool(bv, ref) ==
    BitAnd(WordAt(bv, ref.mpBitWord), ShiftLeftOne(ref.mnBitIndex)) # 0

RefAssign(bv, ref, value) ==
    LET mask == ShiftLeftOne(ref.mnBitIndex)
        w    == WordAt(bv, ref.mpBitWord)
    IN  IF value THEN StoreWord(bv, ref.mpBitWord, BitOr(w, mask))
                 ELSE StoreWord(bv, ref.mpBitWord, BitAnd(w, BitNot(mask)))

RefAssignRef(bv, ref, rhs) == RefAssign(bv, ref, RefToBool(bv, rhs))

\* Mutant: CopyFrom, which makes the target refer to the source's bit and
\* writes nothing.
RefCopyFrom(bv, ref, rhs) == [bv |-> bv, ref |-> rhs]

\* operator=(const bitvector_reference&) with the proxy it returns (*this).
RefAssignFrom(bv, ref, rhs) == [bv |-> RefAssignRef(bv, ref, rhs), ref |-> ref]

(***************************************************************************)
(* bitvector_const_iterator / bitvector_iterator: the coordinate pair of   *)
(* the iterator's mReference.                                              *)
(***************************************************************************)
ItInc(it) ==
    IF it.mnBitIndex + 1 = kBitCount
    THEN Ref(it.mpBitWord + 1, 0)
    ELSE Ref(it.mpBitWord, it.mnBitIndex + 1)

ItDec(it) ==
    IF it.mnBitIndex = 0
    THEN Ref(it.mpBitWord - 1, kBitCount - 1)
    ELSE Ref(it.mpBitWord, it.mnBitIndex - 1)

\* Mutant: rounds a negative distance with kBitCount instead of
\* kBitCount - 1.
ItPlusAssignRoundsTooFar(it, dist) ==
    LET n == dist + it.mnBitIndex
    IN  IF n >= 0
        THEN Ref(it.mpBitWord + (n \div kBitCount), n % kBitCount)
        ELSE LET backwards == (-n) + kBitCount
             IN  Ref(it.mpBitWord - (backwards \div kBitCount),
                     (kBitCount - 1) - (backwards % kBitCount))

ItPlusAssign(it, dist) ==
    LET n == dist + it.mnBitIndex
    IN  IF n >= 0
        THEN Ref(it.mpBitWord + (n \div kBitCount), n % kBitCount)
        ELSE LET backwards == (-n) + kBitCount - 1
             IN  Ref(it.mpBitWord - (backwards \div kBitCount),
                     (kBitCount - 1) - (backwards % kBitCount))

ItMinusAssign(it, dist) == ItPlusAssign(it, -dist)

\* Mutant: a negative distance is divided as a positive one is, truncating
\* toward zero.
ItPlusTruncating(it, dist) ==
    LET n == dist + it.mnBitIndex
    IN  IF n >= 0
        THEN Ref(it.mpBitWord + (n \div kBitCount), n % kBitCount)
        ELSE Ref(it.mpBitWord - ((-n) \div kBitCount),
                 (kBitCount - ((-n) % kBitCount)) % kBitCount)

\* operator+(difference_type) and operator-(difference_type): a copy, moved.
ItPlus(it, dist) == ItPlusAssign(it, dist)
ItMinus(it, dist) == ItMinusAssign(it, dist)

\* operator-(const this_type&).  The word difference, a difference_type, is
\* added to the bit indices, which are size_type: the sum is computed in
\* size_type, wrapping, and converted to difference_type on return.
ToSizeType(x) == x % kSizeTypeMod
ToDifference(u) == IF u >= kSizeTypeMod \div 2 THEN u - kSizeTypeMod ELSE u

\* Mutant: the result is left unsigned.
ItDiffUnsigned(a, b) ==
    ToSizeType(ToSizeType(ToSizeType((a.mpBitWord - b.mpBitWord) * kBitCount)
                          + a.mnBitIndex) - b.mnBitIndex)

ItDiff(a, b) ==
    ToDifference(
        ToSizeType(ToSizeType(ToSizeType((a.mpBitWord - b.mpBitWord) * kBitCount)
                              + a.mnBitIndex) - b.mnBitIndex))

ItEq(a, b) == (a.mpBitWord = b.mpBitWord) /\ (a.mnBitIndex = b.mnBitIndex)
ItNe(a, b) == ~ItEq(a, b)
ItLt(a, b) ==
    (a.mpBitWord < b.mpBitWord)
    \/ ((a.mpBitWord = b.mpBitWord) /\ (a.mnBitIndex < b.mnBitIndex))
ItLe(a, b) ==
    (a.mpBitWord < b.mpBitWord)
    \/ ((a.mpBitWord = b.mpBitWord) /\ (a.mnBitIndex <= b.mnBitIndex))
ItGt(a, b) == ~ItLe(a, b)
ItGe(a, b) == ~ItLt(a, b)

\* operator* of the const iterator (a bool) and of the mutable one (a proxy).
ItDeref(bv, it) == RefToBool(bv, it)

(***************************************************************************)
(* MoveBits                                                                *)
(***************************************************************************)
RECURSIVE MoveBitsForward(_, _, _, _)
MoveBitsForward(bv, start, end, dest) ==
    IF ItEq(start, end) THEN bv
    ELSE MoveBitsForward(RefAssignRef(bv, dest, start), ItInc(start), end, ItInc(dest))

RECURSIVE MoveBitsBackward(_, _, _, _)
MoveBitsBackward(bv, start, end, dest) ==
    IF ItEq(start, end) THEN bv
    ELSE MoveBitsBackward(RefAssignRef(bv, ItDec(dest), ItDec(end)),
                          start, ItDec(end), ItDec(dest))

\* The single-bit copies "*dest = *start" and "*dest = *end" of MoveBits, in
\* the order it makes them: each is the pair of the position read and the
\* position written.
RECURSIVE CopiesForward(_, _, _)
CopiesForward(start, end, dest) ==
    IF ItEq(start, end) THEN <<>>
    ELSE <<[from |-> start, to |-> dest]>>
           \o CopiesForward(ItInc(start), end, ItInc(dest))

RECURSIVE CopiesBackward(_, _, _)
CopiesBackward(start, end, dest) ==
    IF ItEq(start, end) THEN <<>>
    ELSE <<[from |-> ItDec(end), to |-> ItDec(dest)]>>
           \o CopiesBackward(start, ItDec(end), ItDec(dest))

MoveBitsCopies(start, end, dest) ==
    IF ItLe(dest, start)
    THEN CopiesForward(start, end, dest)
    ELSE CopiesBackward(start, end, ItPlusAssign(dest, ItDiff(end, start)))

\* Mutant: copies low to high whatever the direction of the shift.
MoveBitsAlwaysForward(bv, start, end, dest) ==
    MoveBitsForward(bv, start, end, dest)

\* Mutant: copies high to low whatever the direction of the shift.
MoveBitsAlwaysBackward(bv, start, end, dest) ==
    MoveBitsBackward(bv, start, end, ItPlusAssign(dest, ItDiff(end, start)))

MoveBits(bv, start, end, dest) ==
    IF ItLe(dest, start)
    THEN MoveBitsForward(bv, start, end, dest)
    ELSE MoveBitsBackward(bv, start, end, ItPlusAssign(dest, ItDiff(end, start)))

(***************************************************************************)
(* The word store (eastl::vector<Element>), modelled from its interface.   *)
(* Every operation returns [bv, ok]; ok = FALSE is a failed allocation,    *)
(* which leaves the store as it was.  The environment e of a call gives    *)
(* the outcome of an allocation (e.alloc), the capacity the store's growth *)
(* policy picks (e.cap) and the content of words nobody initialises (e.g). *)
(***************************************************************************)
Max(a, b) == IF a >= b THEN a ELSE b
Min(a, b) == IF a <= b THEN a ELSE b
Ok(bv) == [bv |-> bv, ok |-> TRUE]
Fail(bv) == [bv |-> bv, ok |-> FALSE]
Repeat(w, n) == [i \in 1 .. n |-> w]
\* Contents of a word nobody initialised: every bit clear, or every bit set.
Garbage == {0, WordMax}
Env == [alloc : BOOLEAN, cap : {0, MaxWords}, g : Garbage]

VecStore(bv, c, e) ==
    IF Len(c) <= bv.mCapacity
    THEN Ok([bv EXCEPT !.mContainer = c])
    ELSE IF ~e.alloc
         THEN Fail(bv)
         ELSE Ok([bv EXCEPT !.mContainer = c,
                            !.mCapacity = Max(Len(c), e.cap),
                            !.mpBegin = OtherArena(@)])

VecPushBack(bv, e) == VecStore(bv, Append(bv.mContainer, e.g), e)
VecPopBack(bv) == [bv EXCEPT !.mContainer = SubSeq(@, 1, Len(@) - 1)]

VecResizeFill(bv, n, element, e) ==
    IF n <= Len(bv.mContainer)
    THEN Ok([bv EXCEPT !.mContainer = SubSeq(@, 1, n)])
    ELSE VecStore(bv, bv.mContainer \o Repeat(element, n - Len(bv.mContainer)), e)

VecResize(bv, n, e) == VecResizeFill(bv, n, e.g, e)

VecReserve(bv, n, e) ==
    IF n <= bv.mCapacity THEN Ok(bv)
    ELSE IF ~e.alloc THEN Fail(bv)
         ELSE Ok([bv EXCEPT !.mCapacity = n, !.mpBegin = OtherArena(@)])

VecClear(bv) == [bv EXCEPT !.mContainer = <<>>]

VecResetLoseMemory(bv) ==
    [bv EXCEPT !.mContainer = <<>>, !.mCapacity = 0, !.mpBegin = OtherArena(@)]

\* setCapacity(n): n = npos or n <= size shrinks the store to min(n, size)
\* words and then reallocates it to fit exactly; a larger n reallocates the
\* store with capacity n.
VecSetCapacity(bv, n, e) ==
    IF n = npos \/ n <= Len(bv.mContainer)
    THEN LET c == IF n = npos THEN bv.mContainer
                  ELSE SubSeq(bv.mContainer, 1, n)
         IN  IF ~e.alloc /\ c # <<>> THEN Fail([bv EXCEPT !.mContainer = c])
             ELSE Ok([bv EXCEPT !.mContainer = c,
                                !.mCapacity = Len(c),
                                !.mpBegin = OtherArena(@)])
    ELSE IF ~e.alloc THEN Fail(bv)
         ELSE Ok([bv EXCEPT !.mCapacity = n, !.mpBegin = OtherArena(@)])

VecValidate(bv) == Len(bv.mContainer) <= bv.mCapacity

(***************************************************************************)
(* bitvector: observers                                                    *)
(***************************************************************************)
begin(bv) == Ref(bv.mpBegin, 0)
end(bv) == ItMinusAssign(Ref(bv.mpBegin + Len(bv.mContainer), 0), bv.mFreeBitCount)
empty(bv) == Len(bv.mContainer) = 0
size(bv) == ((Len(bv.mContainer) * kBitCount) - bv.mFreeBitCount) % kSizeTypeMod
capacity(bv) == bv.mCapacity * kBitCount
validate(bv) ==
    IF ~VecValidate(bv) THEN FALSE
    ELSE IF bv.mFreeBitCount >= kBitCount THEN FALSE
    ELSE TRUE

\* The bit an access through position it reads: the stored bit inside the
\* store's words, an unspecified value u outside them.
ReadBit(bv, it, u) == IF InStore(bv, it.mpBitWord) THEN RefToBool(bv, it) ELSE u

(***************************************************************************)
(* Iterator validation.  The result is a set of the flags isf_valid,       *)
(* isf_current and isf_can_dereference; isf_none is the empty set.  The    *)
(* test "pCurrent == pEnd && mReference" converts the proxy to bool, that  *)
(* is, reads the bit the iterator refers to, in the word at pEnd.          *)
(***************************************************************************)
isf_none == {}
IsfValidCurrent == {"isf_valid", "isf_current"}
IsfDereferenceable == {"isf_valid", "isf_current", "isf_can_dereference"}

\* Mutant: a position in the free tail of the last word counts as one that
\* can be dereferenced.
ItValidateIgnoresExtraBits(bv, it, pStart, pEnd, nExtraBits, u) ==
    IF it.mpBitWord >= pStart /\ it.mpBitWord < pEnd THEN IsfDereferenceable
    ELSE IF it.mpBitWord = pEnd /\ nExtraBits = 0 /\ ReadBit(bv, it, u)
         THEN IsfValidCurrent
         ELSE isf_none

ItValidate(bv, it, pStart, pEnd, nExtraBits, u) ==
    LET pCurrent == it.mpBitWord
    IN  IF pCurrent >= pStart
        THEN IF nExtraBits = 0
             THEN IF pCurrent = pEnd /\ ReadBit(bv, it, u)
                  THEN IsfValidCurrent
                  ELSE IF pCurrent < pEnd THEN IsfDereferenceable ELSE isf_none
             ELSE IF pCurrent = pEnd - 1
                  THEN LET bit     == it.mnBitIndex
                           lastbit == kBitCount - nExtraBits
                       IN  IF bit = lastbit THEN IsfValidCurrent
                           ELSE IF bit < lastbit THEN IsfDereferenceable
                                ELSE isf_none
                  ELSE IF pCurrent < pEnd THEN IsfDereferenceable ELSE isf_none
        ELSE isf_none

validateIterator(bv, i, u) ==
    ItValidate(bv, i, bv.mpBegin, bv.mpBegin + Len(bv.mContainer), bv.mFreeBitCount, u)

(***************************************************************************)
(* bitvector: size-changing operations.  Each returns [bv, ok]; a failure  *)
(* of the word store leaves the operation at the point of the failure.     *)
(***************************************************************************)
pushBack(bv, e) ==
    IF bv.mFreeBitCount = 0
    THEN LET r == VecPushBack(bv, e)
         IN  IF r.ok
             THEN Ok([r.bv EXCEPT !.mFreeBitCount = kBitCount - 1])
             ELSE r
    ELSE Ok([bv EXCEPT !.mFreeBitCount = @ - 1])

pushBackValue(bv, value, e) ==
    LET r == pushBack(bv, e)
    IN  IF r.ok THEN Ok(RefAssign(r.bv, ItDec(end(r.bv)), value)) ELSE r

\* Mutant: never gives the emptied last word back to the word store.
popBackKeepsWord(bv) == [bv EXCEPT !.mFreeBitCount = @ + 1]

popBack(bv) ==
    IF bv.mFreeBitCount + 1 = kBitCount
    THEN [VecPopBack(bv) EXCEPT !.mFreeBitCount = 0]
    ELSE [bv EXCEPT !.mFreeBitCount = @ + 1]

\* Mutant: rounds the word count down.
reserveRoundsDown(bv, n, e) == VecReserve(bv, n \div kBitCount, e)

reserve(bv, n, e) == VecReserve(bv, (n + kBitCount - 1) \div kBitCount, e)

\* Mutant: resizes the word store and keeps the old count of free bits.
resizeKeepsFreeBits(bv, n, e) ==
    VecResize(bv, (n + kBitCount - 1) \div kBitCount, e)

resize(bv, n, e) ==
    LET wordCount == (n + kBitCount - 1) \div kBitCount
        extra     == (wordCount * kBitCount) - n
        r         == VecResize(bv, wordCount, e)
    IN  IF r.ok THEN Ok([r.bv EXCEPT !.mFreeBitCount = extra]) ELSE r

\* The loop "while(mFreeBitCount && newbits) { pushBack(value); --newbits; }";
\* the result carries the remaining newbits.
\* Mutant: claims the free bits of the last word without writing them.
RECURSIVE ResizeFillLoopNoWrite(_, _, _, _)
ResizeFillLoopNoWrite(bv, newbits, value, e) ==
    IF bv.mFreeBitCount # 0 /\ newbits # 0
    THEN ResizeFillLoopNoWrite(pushBack(bv, e).bv, newbits - 1, value, e)
    ELSE [bv |-> bv, ok |-> TRUE, newbits |-> newbits]

RECURSIVE ResizeFillLoop(_, _, _, _)
ResizeFillLoop(bv, newbits, value, e) ==
    IF bv.mFreeBitCount # 0 /\ newbits # 0
    THEN LET r == pushBackValue(bv, value, e)
         IN  IF r.ok THEN ResizeFillLoop(r.bv, newbits - 1, value, e)
             ELSE [bv |-> r.bv, ok |-> FALSE, newbits |-> newbits]
    ELSE [bv |-> bv, ok |-> TRUE, newbits |-> newbits]

\* Mutant: the word-at-a-time step does not set mFreeBitCount.
resizeValueKeepsFreeBits(bv, n, value, e) ==
    LET s  == size(bv)
        r0 == IF n < s THEN resize(bv, n, e) ELSE Ok(bv)
    IN  IF ~r0.ok THEN r0
        ELSE LET r1 == ResizeFillLoop(r0.bv, (n - s) % kSizeTypeMod, value, e)
             IN  IF ~r1.ok THEN Fail(r1.bv)
                 ELSE IF r1.newbits # 0
                      THEN LET element == IF value THEN BitNot(0) ELSE 0
                               words   == (n + kBitCount - 1) \div kBitCount
                           IN  VecResizeFill(r1.bv, words, element, e)
                      ELSE Ok(r1.bv)

resizeValue(bv, n, value, e) ==
    LET s  == size(bv)
        r0 == IF n < s THEN resize(bv, n, e) ELSE Ok(bv)
    IN  IF ~r0.ok THEN r0
        ELSE LET r1 == ResizeFillLoop(r0.bv, (n - s) % kSizeTypeMod, value, e)
             IN  IF ~r1.ok THEN Fail(r1.bv)
                 ELSE IF r1.newbits # 0
                      THEN LET element == IF value THEN BitNot(0) ELSE 0
                               words   == (n + kBitCount - 1) \div kBitCount
                               extra   == (words * kBitCount) - n
                               r2      == VecResizeFill(r1.bv, words, element, e)
                           IN  IF r2.ok
                               THEN Ok([r2.bv EXCEPT !.mFreeBitCount = extra])
                               ELSE r2
                      ELSE Ok(r1.bv)

clear(bv) == [VecClear(bv) EXCEPT !.mFreeBitCount = 0]
resetLoseMemory(bv) == [VecResetLoseMemory(bv) EXCEPT !.mFreeBitCount = 0]

setCapacity(bv, n, e) ==
    IF n = npos
    THEN VecSetCapacity(bv, npos, e)
    ELSE VecSetCapacity(bv, (n + kBitCount - 1) \div kBitCount, e)

RECURSIVE AssignLoop(_, _, _)
AssignLoop(bv, src, e) ==
    IF src = <<>> THEN Ok(bv)
    ELSE LET r == pushBackValue(bv, Head(src), e)
         IN  IF r.ok THEN AssignLoop(r.bv, Tail(src), e) ELSE r

\* Mutant: appends the source without clearing first.
assignAppends(bv, src, e) == AssignLoop(bv, src, e)

assign(bv, src, e) == AssignLoop(clear(bv), src, e)

(***************************************************************************)
(* bitvector: element access.  config is the build: "exceptions"           *)
(* (EASTL_EXCEPTIONS_ENABLED), "assert" (only EASTL_ASSERT_ENABLED) or     *)
(* "none".  Each returns [status, ret]: ret is the bit the access yields,  *)
(* u the value of a read outside the store's words.                        *)
(***************************************************************************)
Configs == {"exceptions", "assert", "none"}

\* Mutant: the range check lets n = size() through.
testOffByOne(bv, n, defaultValue, u) ==
    IF n <= size(bv)
    THEN ReadBit(bv, ItPlusAssign(begin(bv), n), u)
    ELSE defaultValue

test(bv, n, defaultValue, u) ==
    IF n < size(bv)
    THEN ReadBit(bv, ItPlusAssign(begin(bv), n), u)
    ELSE defaultValue

index(bv, n, u) == ReadBit(bv, ItPlusAssign(begin(bv), n), u)

\* Mutant: the range check lets n = size() through.
atOffByOne(bv, n, cfg, u) ==
    IF cfg = "exceptions" /\ n > size(bv)
    THEN [status |-> "out_of_range", ret |-> FALSE]
    ELSE IF cfg = "assert" /\ n > size(bv)
         THEN [status |-> "assert_failed", ret |-> ReadBit(bv, ItPlusAssign(begin(bv), n), u)]
         ELSE [status |-> "ok", ret |-> ReadBit(bv, ItPlusAssign(begin(bv), n), u)]

at(bv, n, cfg, u) ==
    IF cfg = "exceptions" /\ n >= size(bv)
    THEN [status |-> "out_of_range", ret |-> FALSE]
    ELSE IF cfg = "assert" /\ n >= size(bv)
         THEN [status |-> "assert_failed", ret |-> ReadBit(bv, ItPlusAssign(begin(bv), n), u)]
         ELSE [status |-> "ok", ret |-> ReadBit(bv, ItPlusAssign(begin(bv), n), u)]

\* Mutant: stores the mask in the word instead of or-ing / and-ing it in.
setOverwritesWord(bv, n, value, e) ==
    LET r == IF n >= size(bv) THEN resize(bv, n + 1, e) ELSE Ok(bv)
        p == ItPlusAssign(begin(r.bv), n)
    IN  IF r.ok
        THEN Ok(StoreWord(r.bv, p.mpBitWord,
                          IF value THEN ShiftLeftOne(p.mnBitIndex) ELSE 0))
        ELSE r

set(bv, n, value, e) ==
    LET r == IF n >= size(bv) THEN resize(bv, n + 1, e) ELSE Ok(bv)
    IN  IF r.ok THEN Ok(RefAssign(r.bv, ItPlusAssign(begin(r.bv), n), value)) ELSE r

front(bv) == RefToBool(bv, Ref(bv.mpBegin, 0))
back(bv) == RefToBool(bv, ItDec(end(bv)))

(***************************************************************************)
(* bitvector: insert and erase.  Each returns [bv, ok, it], it being the   *)
(* returned iterator.                                                      *)
(***************************************************************************)
insert(bv, position, value, e) ==
    LET n == ItDiff(position, begin(bv))
        r == pushBack(bv, e)
    IN  IF ~r.ok THEN [bv |-> r.bv, ok |-> FALSE, it |-> position]
        ELSE LET pos == ItPlusAssign(begin(r.bv), n)
                 m   == MoveBits(r.bv, pos, ItDec(end(r.bv)), ItInc(pos))
             IN  [bv |-> RefAssign(m, pos, value), ok |-> TRUE, it |-> pos]

\* Mutant: the fill starts one bit behind the insertion position.
FillRangeSkipsFirst(bv, position, insert_end, value) ==
    IF ItEq(position, insert_end) THEN bv
    ELSE LET RECURSIVE Fill(_, _)
             Fill(b, p) == IF ItEq(p, insert_end) THEN b
                           ELSE Fill(RefAssign(b, p, value), ItInc(p))
         IN  Fill(bv, ItInc(position))

RECURSIVE FillRange(_, _, _, _)
FillRange(bv, position, insert_end, value) ==
    IF ItEq(position, insert_end) THEN bv
    ELSE FillRange(RefAssign(bv, position, value), ItInc(position), insert_end, value)

insertN(bv, position, n, value, e) ==
    LET p == ItDiff(position, begin(bv))
        r == resize(bv, size(bv) + n, e)
    IN  IF ~r.ok THEN r
        ELSE LET pos        == ItPlusAssign(begin(r.bv), p)
                 insert_end == ItPlusAssign(pos, n)
                 m          == MoveBits(r.bv, pos, ItMinusAssign(end(r.bv), n), insert_end)
             IN  Ok(FillRange(m, pos, insert_end, value))

erase(bv, position, e) ==
    LET m == MoveBits(bv, ItInc(position), end(bv), position)
        r == resize(m, size(m) - 1, e)
    IN  [bv |-> r.bv, ok |-> r.ok, it |-> position]

eraseRange(bv, first, lastIt, e) ==
    IF ~ItEq(first, lastIt)
    THEN LET eraseCount == ItDiff(lastIt, first) % kSizeTypeMod
             m          == MoveBits(bv, lastIt, end(bv), first)
             r          == resize(m, size(m) - eraseCount, e)
         IN  [bv |-> r.bv, ok |-> r.ok, it |-> first]
    ELSE [bv |-> bv, ok |-> TRUE, it |-> first]

(***************************************************************************)
(* The debug checks of insert and erase, compiled in under                 *)
(* EASTL_ASSERT_ENABLED.  A failed check reports and the call goes on.     *)
(* Each returns the call's result with the outcome of its checks: entry    *)
(* and post are TRUE when the check passes.  u1 and u2 are the values of   *)
(* the reads the two validations make outside the store's words.           *)
(***************************************************************************)
insertChecked(bv, position, value, e, u1) ==
    LET r == insert(bv, position, value, e)
    IN  [bv |-> r.bv, ok |-> r.ok, it |-> r.it,
         entry |-> "isf_valid" \in validateIterator(bv, position, u1),
         post |-> TRUE]

eraseChecked(bv, position, e, u1, u2) ==
    LET r == erase(bv, position, e)
    IN  [bv |-> r.bv, ok |-> r.ok, it |-> r.it,
         entry |-> "isf_can_dereference" \in validateIterator(bv, position, u1),
         post |-> "isf_valid" \in validateIterator(r.bv, position, u2)]

(***************************************************************************)
(* Reverse iterators (eastl::reverse_iterator, modelled from its           *)
(* interface): a wrapper of a forward iterator, its base; incrementing it  *)
(* decrements the base, and it refers to the bit in front of its base.     *)
(***************************************************************************)
Rev(it) == [base |-> it]
RevInc(r) == Rev(ItDec(r.base))
rbegin(bv) == Rev(end(bv))
rend(bv) == Rev(begin(bv))

\* Mutant: erases the bit as many places from the front as rpos is from
\* the back.
eraseReverseMirrored(bv, position, e) ==
    LET r == erase(bv, ItPlus(begin(bv), ItDiff(end(bv), position.base)), e)
    IN  [bv |-> r.bv, ok |-> r.ok, it |-> Rev(r.it)]

eraseReverse(bv, position, e) ==
    LET r == erase(bv, RevInc(position).base, e)
    IN  [bv |-> r.bv, ok |-> r.ok, it |-> Rev(r.it)]

eraseReverseRange(bv, first, lastIt, e) ==
    LET r == eraseRange(bv, lastIt.base, first.base, e)
    IN  [bv |-> r.bv, ok |-> r.ok, it |-> Rev(r.it)]

(***************************************************************************)
(* swap: the word stores exchange their storage (eastl::vector::swap,      *)
(* modelled from its interface), then the free bit counts are exchanged.   *)
(* Returns the pair [a, b] of the two objects after the call.              *)
(***************************************************************************)
VecSwap(a, b) ==
    [a |-> [a EXCEPT !.mContainer = b.mContainer, !.mCapacity = b.mCapacity,
                     !.mpBegin = b.mpBegin],
     b |-> [b EXCEPT !.mContainer = a.mContainer, !.mCapacity = a.mCapacity,
                     !.mpBegin = a.mpBegin]]

\* Mutant: exchanges the storage and keeps each object's free bit count.
swapKeepsFreeBits(a, b) == VecSwap(a, b)

swap(a, b) ==
    LET r == VecSwap(a, b)
    IN  [a |-> [r.a EXCEPT !.mFreeBitCount = r.b.mFreeBitCount],
         b |-> [r.b EXCEPT !.mFreeBitCount = r.a.mFreeBitCount]]

(***************************************************************************)
(* Global operators on two bitvectors.  equal and lexicographical_compare  *)
(* are the library's generic algorithms, modelled from their contract.     *)
(***************************************************************************)
RECURSIVE equal(_, _, _, _, _)
equal(a, first1, last1, b, first2) ==
    IF ItEq(first1, last1) THEN TRUE
    ELSE IF ItDeref(a, first1) # ItDeref(b, first2) THEN FALSE
         ELSE equal(a, ItInc(first1), last1, b, ItInc(first2))

RECURSIVE lexicographical_compare(_, _, _, _, _, _)
lexicographical_compare(a, first1, last1, b, first2, last2) ==
    IF ItEq(first1, last1) \/ ItEq(first2, last2)
    THEN ItEq(first1, last1) /\ ~ItEq(first2, last2)
    ELSE IF ~ItDeref(a, first1) /\ ItDeref(b, first2) THEN TRUE
         ELSE IF ~ItDeref(b, first2) /\ ItDeref(a, first1) THEN FALSE
              ELSE lexicographical_compare(a, ItInc(first1), last1, b, ItInc(first2), last2)

\* Mutant: compares the stored words instead of the bits in use.
opEqualWords(a, b) == (size(a) = size(b)) /\ (a.mContainer = b.mContainer)

\* Mutant: compares the words as unsigned numbers, lowest word first.
opLessWords(a, b) ==
    \/ \E k \in 1 .. Min(Len(a.mContainer), Len(b.mContainer)) :
          /\ SubSeq(a.mContainer, 1, k - 1) = SubSeq(b.mContainer, 1, k - 1)
          /\ a.mContainer[k] < b.mContainer[k]
    \/ /\ size(a) < size(b)
       /\ a.mContainer = SubSeq(b.mContainer, 1, Len(a.mContainer))

opEqual(a, b) == (size(a) = size(b)) /\ equal(a, begin(a), end(a), b, begin(b))
opNotEqual(a, b) == ~opEqual(a, b)
opLess(a, b) == lexicographical_compare(a, begin(a), end(a), b, begin(b), end(b))
opGreater(a, b) == opLess(b, a)
opLessEqual(a, b) == ~opLess(b, a)
opGreaterEqual(a, b) == ~opLess(a, b)

(***************************************************************************)
(* The state machine: the bitvector object (its four fields), a second     *)
(* bitvector (other) for the operators on two objects, a set or multiset   *)
(* (tree: its kind and its keys in order), the build                       *)
(* configuration, and the record of the call in progress: its name and     *)
(* arguments, the object before the call (pre), the object before the call *)
(* that immediately preceded it (prev), its outcome and what it returned.  *)
(***************************************************************************)
Self == [mContainer |-> mContainer, mFreeBitCount |-> mFreeBitCount,
         mCapacity |-> mCapacity, mpBegin |-> mpBegin]

NoIt == Ref(0, 0)

\* No call is in progress: the caller has taken the result of the last one.
NoCall == [name |-> "idle"]
Idle == last.name = "idle"

Call(name, n, m, value, src, status, ret, it) ==
    [name |-> name, pre |-> Self, prev |-> IF Idle THEN Self ELSE last.pre,
     after |-> last.name, n |-> n, m |-> m, value |-> value, src |-> src,
     status |-> status, ret |-> ret, it |-> it]

Become(bv) ==
    /\ mContainer' = bv.mContainer
    /\ mFreeBitCount' = bv.mFreeBitCount
    /\ mCapacity' = bv.mCapacity
    /\ mpBegin' = bv.mpBegin
    /\ UNCHANGED <<other, config, tree>>

Status(r) == IF r.ok THEN "ok" ELSE "bad_alloc"

\* Sequences of booleans of length at most n.
BoolSeqs(n) == UNION {[1 .. k -> BOOLEAN] : k \in 0 .. n}

\* A position of the sequence, as a caller obtains it: begin() + i.
Position(bv, i) == ItPlusAssign(begin(bv), i)

\* The iterator a caller reaches from begin() by i increments.
RECURSIVE ItAt(_, _)
ItAt(bv, i) == IF i = 0 THEN begin(bv) ELSE ItInc(ItAt(bv, i - 1))

\* An iterator into the sequence exists only when the bookkeeping describes
\* storage: a store without words has no free bits.
HasStorage(bv) == Len(bv.mContainer) > 0 \/ bv.mFreeBitCount = 0

(***************************************************************************)
(* Constructors                                                            *)
(***************************************************************************)
\* The set object of the state, before any set is constructed: an empty set.
NoTree == [multi |-> FALSE, keys |-> <<>>]

EmptyStore == [mContainer |-> <<>>, mFreeBitCount |-> 0, mCapacity |-> 0, mpBegin |-> Arena(1)]

CtorFreeBits(n) ==
    LET f == kBitCount - (n % kBitCount)
    IN  IF f = kBitCount THEN 0 ELSE f

ctorDefault == EmptyStore

ctorSized(n, g) ==
    LET wc == (n + kBitCount - 1) \div kBitCount
    IN  [mContainer |-> Repeat(g, wc), mFreeBitCount |-> CtorFreeBits(n),
         mCapacity |-> wc, mpBegin |-> Arena(1)]

ctorFill(n, value) ==
    LET wc == (n + kBitCount - 1) \div kBitCount
    IN  [mContainer |-> Repeat(IF value THEN BitNot(0) ELSE 0, wc),
         mFreeBitCount |-> CtorFreeBits(n),
         mCapacity |-> wc, mpBegin |-> Arena(1)]

ctorRange(src, e) == assign(EmptyStore, src, e).bv

CtorRecord(name, n, value, src) ==
    [name |-> name, pre |-> EmptyStore, prev |-> EmptyStore, after |-> "idle",
     n |-> n, m |-> 0,
     value |-> value, src |-> src, status |-> "ok", ret |-> FALSE, it |-> NoIt]

Constructed ==
    {[bv |-> ctorDefault, call |-> CtorRecord("ctor", 0, FALSE, <<>>)]}
    \cup {[bv |-> ctorSized(n, g), call |-> CtorRecord("ctorSized", n, FALSE, <<>>)] :
            n \in 0 .. MaxBits, g \in Garbage}
    \cup {[bv |-> ctorFill(n, v), call |-> CtorRecord("ctorFill", n, v, <<>>)] :
            n \in 0 .. MaxBits, v \in BOOLEAN}
    \cup {[bv |-> ctorRange(src, e), call |-> CtorRecord("ctorRange", 0, FALSE, src)] :
            src \in BoolSeqs(MaxSrc), e \in {x \in Env : x.alloc}}

InitBuild(cfgs) ==
    /\ config \in cfgs
    /\ other = EmptyStore
    /\ tree = NoTree
    /\ \E c \in Constructed :
          /\ mContainer = c.bv.mContainer
          /\ mFreeBitCount = c.bv.mFreeBitCount
          /\ mCapacity = c.bv.mCapacity
          /\ mpBegin = c.bv.mpBegin
          /\ last = c.call

\* The build with assertions enabled.
InitDebug == InitBuild({"assert"})

\* The build with exceptions enabled, and any build.
Init == InitBuild({"exceptions"})
InitAnyBuild == InitBuild(Configs)

(***************************************************************************)
(* Actions: one per public operation                                       *)
(***************************************************************************)
\* The caller takes the result of the call.
Return ==
    /\ ~Idle
    /\ last' = NoCall
    /\ UNCHANGED <<mContainer, mFreeBitCount, mCapacity, mpBegin, other, config, tree>>

PushBack ==
    \E e \in Env :
      /\ Idle
      /\ size(Self) < MaxBits
      /\ LET r == pushBack(Self, e)
         IN  /\ Become(r.bv)
             /\ last' = Call("pushBack", 0, 0, FALSE, <<>>, Status(r), FALSE, NoIt)

PushBackValue ==
    \E e \in Env, value \in BOOLEAN :
      /\ Idle
      /\ HasStorage(Self)
      /\ size(Self) < MaxBits
      /\ LET r == pushBackValue(Self, value, e)
         IN  /\ Become(r.bv)
             /\ last' = Call("pushBackValue", 0, 0, value, <<>>, Status(r), FALSE, NoIt)

\* popBack may also follow a successful pushBack immediately.
PopBack ==
    /\ \/ Idle
       \/ last.name \in {"pushBack", "pushBackValue"} /\ last.status = "ok"
    /\ ~empty(Self)
    /\ Become(popBack(Self))
    /\ last' = Call("popBack", 0, 0, FALSE, <<>>, "ok", FALSE, NoIt)

Reserve ==
    \E e \in Env, n \in 0 .. MaxBits :
      /\ Idle
      /\ LET r == reserve(Self, n, e)
         IN  /\ Become(r.bv)
             /\ last' = Call("reserve", n, 0, FALSE, <<>>, Status(r), FALSE, NoIt)

SetCapacity ==
    \E e \in Env, n \in (0 .. MaxBits) \cup {npos} :
      /\ Idle
      /\ LET r == setCapacity(Self, n, e)
         IN  /\ Become(r.bv)
             /\ last' = Call("setCapacity", n, 0, FALSE, <<>>, Status(r), FALSE, NoIt)

Resize ==
    \E e \in Env, n \in 0 .. MaxBits :
      /\ Idle
      /\ LET r == resize(Self, n, e)
         IN  /\ Become(r.bv)
             /\ last' = Call("resize", n, 0, FALSE, <<>>, Status(r), FALSE, NoIt)

ResizeValue ==
    \E e \in Env, n \in 0 .. MaxBits, value \in BOOLEAN :
      /\ Idle
      /\ LET r == resizeValue(Self, n, value, e)
         IN  /\ Become(r.bv)
             /\ last' = Call("resizeValue", n, 0, value, <<>>, Status(r), FALSE, NoIt)

Clear ==
    /\ Idle
    /\ Become(clear(Self))
    /\ last' = Call("clear", 0, 0, FALSE, <<>>, "ok", FALSE, NoIt)

ResetLoseMemory ==
    /\ Idle
    /\ Become(resetLoseMemory(Self))
    /\ last' = Call("resetLoseMemory", 0, 0, FALSE, <<>>, "ok", FALSE, NoIt)

Assign ==
    \E e \in Env, src \in BoolSeqs(MaxSrc) :
      /\ Idle
      /\ LET r == assign(Self, src, e)
         IN  /\ Become(r.bv)
             /\ last' = Call("assign", 0, 0, FALSE, src, Status(r), FALSE, NoIt)

Set ==
    \E e \in Env, n \in 0 .. (MaxBits - 1), value \in BOOLEAN :
      /\ Idle
      /\ HasStorage(Self)
      /\ LET r == set(Self, n, value, e)
         IN  /\ Become(r.bv)
             /\ last' = Call("set", n, 0, value, <<>>, Status(r), FALSE, NoIt)

Test ==
    \E n \in (0 .. MaxBits) \cup {npos}, d \in BOOLEAN, u \in BOOLEAN :
      /\ Idle
      /\ UNCHANGED <<mContainer, mFreeBitCount, mCapacity, mpBegin, other, config, tree>>
      /\ last' = Call("test", n, 0, d, <<>>, "ok", test(Self, n, d, u), NoIt)

At ==
    \E n \in 0 .. MaxBits, u \in BOOLEAN :
      /\ Idle
      /\ LET r == at(Self, n, config, u)
         IN  /\ UNCHANGED <<mContainer, mFreeBitCount, mCapacity, mpBegin, other, config, tree>>
             /\ last' = Call("at", n, 0, FALSE, <<>>, r.status, r.ret, NoIt)

Index ==
    \E n \in 0 .. MaxBits, u \in BOOLEAN :
      /\ Idle
      /\ HasStorage(Self)
      /\ n < size(Self)
      /\ UNCHANGED <<mContainer, mFreeBitCount, mCapacity, mpBegin, other, config, tree>>
      /\ last' = Call("index", n, 0, FALSE, <<>>, "ok", index(Self, n, u), NoIt)

Insert ==
    \E e \in Env, p \in 0 .. MaxBits, value \in BOOLEAN :
      /\ Idle
      /\ HasStorage(Self)
      /\ p <= size(Self)
      /\ size(Self) < MaxBits
      /\ LET r == insert(Self, Position(Self, p), value, e)
         IN  /\ Become(r.bv)
             /\ last' = Call("insert", p, 0, value, <<>>, Status(r), FALSE, r.it)

InsertN ==
    \E e \in Env, p \in 0 .. MaxBits, n \in 0 .. MaxBits, value \in BOOLEAN :
      /\ Idle
      /\ HasStorage(Self)
      /\ p <= size(Self)
      /\ size(Self) + n <= MaxBits
      /\ LET r == insertN(Self, Position(Self, p), n, value, e)
         IN  /\ Become(r.bv)
             /\ last' = Call("insertN", p, n, value, <<>>, Status(r), FALSE, NoIt)

\* erase only shrinks the word store, which never allocates.
NoAlloc == [alloc |-> TRUE, cap |-> 0, g |-> 0]

Erase ==
    \E p \in 0 .. MaxBits :
      /\ Idle
      /\ HasStorage(Self)
      /\ p < size(Self)
      /\ LET r == erase(Self, Position(Self, p), NoAlloc)
         IN  /\ Become(r.bv)
             /\ last' = Call("erase", p, 0, FALSE, <<>>, Status(r), FALSE, r.it)

EraseRange ==
    \E p \in 0 .. MaxBits, q \in 0 .. MaxBits :
      /\ Idle
      /\ HasStorage(Self)
      /\ p <= q
      /\ q <= size(Self)
      /\ LET r == eraseRange(Self, Position(Self, p), Position(Self, q), NoAlloc)
         IN  /\ Become(r.bv)
             /\ last' = Call("eraseRange", p, q, FALSE, <<>>, Status(r), FALSE, r.it)

\* The reverse iterator a caller reaches from rbegin() by k increments.
RECURSIVE RevAt(_, _)
RevAt(bv, k) == IF k = 0 THEN rbegin(bv) ELSE RevInc(RevAt(bv, k - 1))

EraseReverse ==
    \E k \in 0 .. MaxBits :
      /\ Idle
      /\ HasStorage(Self)
      /\ k < size(Self)
      /\ LET r == eraseReverse(Self, RevAt(Self, k), NoAlloc)
         IN  /\ Become(r.bv)
             /\ last' = Call("eraseReverse", k, 0, FALSE, <<>>, Status(r), FALSE, r.it.base)

EraseReverseRange ==
    \E k1 \in 0 .. MaxBits, k2 \in 0 .. MaxBits :
      /\ Idle
      /\ HasStorage(Self)
      /\ k1 <= k2
      /\ k2 <= size(Self)
      /\ LET r == eraseReverseRange(Self, RevAt(Self, k1), RevAt(Self, k2), NoAlloc)
         IN  /\ Become(r.bv)
             /\ last' = Call("eraseReverseRange", k1, k2, FALSE, <<>>, Status(r), FALSE,
                             r.it.base)

\* insert and erase in a build with assertions; the call record also carries
\* the outcome of the entry check and of the check after the call.
CheckedCall(name, p, value, r) ==
    Call(name, p, 0, value, <<>>,
         IF ~r.ok THEN "bad_alloc"
         ELSE IF r.entry /\ r.post THEN "ok" ELSE "assert_failed",
         FALSE, r.it)
      @@ [entry |-> r.entry, post |-> r.post]

InsertChecked ==
    \E e \in Env, p \in 0 .. MaxBits, value \in BOOLEAN, u1 \in BOOLEAN :
      /\ Idle
      /\ config = "assert"
      /\ HasStorage(Self)
      /\ p <= size(Self)
      /\ size(Self) < MaxBits
      /\ LET r == insertChecked(Self, Position(Self, p), value, e, u1)
         IN  /\ Become(r.bv)
             /\ last' = CheckedCall("insertChecked", p, value, r)

EraseChecked ==
    \E p \in 0 .. MaxBits, u1 \in BOOLEAN, u2 \in BOOLEAN :
      /\ Idle
      /\ config = "assert"
      /\ HasStorage(Self)
      /\ p < size(Self)
      /\ LET r == eraseChecked(Self, Position(Self, p), NoAlloc, u1, u2)
         IN  /\ Become(r.bv)
             /\ last' = CheckedCall("eraseChecked", p, FALSE, r)

\* MoveBits(start, end, dest) on positions of the sequence; the call record
\* also carries dest's index and the copies made.
MoveBitsCall ==
    \E s \in 0 .. MaxBits, e \in 0 .. MaxBits, d \in 0 .. MaxBits :
      /\ Idle
      /\ HasStorage(Self)
      /\ s <= e
      /\ e <= size(Self)
      /\ d + (e - s) <= size(Self)
      /\ LET start == Position(Self, s)
             end_  == Position(Self, e)
             dest  == Position(Self, d)
         IN  /\ Become(MoveBits(Self, start, end_, dest))
             /\ last' = Call("moveBits", s, e, FALSE, <<>>, "ok", FALSE, dest)
                          @@ [dest |-> d, copies |-> MoveBitsCopies(start, end_, dest)]

\* A write of a boolean through the proxy operator[](i) yields.
ProxyAssign ==
    \E i \in 0 .. MaxBits, value \in BOOLEAN :
      /\ Idle
      /\ HasStorage(Self)
      /\ i < size(Self)
      /\ LET ref == Position(Self, i)
         IN  /\ Become(RefAssign(Self, ref, value))
             /\ last' = Call("proxyAssign", i, 0, value, <<>>, "ok", FALSE, ref)

\* An assignment of the proxy of bit j to the proxy of bit i.
ProxyAssignRef ==
    \E i \in 0 .. MaxBits, j \in 0 .. MaxBits :
      /\ Idle
      /\ HasStorage(Self)
      /\ i < size(Self)
      /\ j < size(Self)
      /\ LET r == RefAssignFrom(Self, Position(Self, i), Position(Self, j))
         IN  /\ Become(r.bv)
             /\ last' = Call("proxyAssignRef", i, j, FALSE, <<>>, "ok", FALSE, r.ref)

\* validateIterator of an iterator at any coordinate in or around the store;
\* n is the coordinate's linear index, counted from begin().
ValidateIterator ==
    \E w \in -1 .. (MaxWords + 1), b \in 0 .. (kBitCount - 1), u \in BOOLEAN :
      /\ Idle
      /\ w <= Len(mContainer) + 1
      /\ LET i == Ref(mpBegin + w, b)
         IN  /\ UNCHANGED <<mContainer, mFreeBitCount, mCapacity, mpBegin, other, config, tree>>
             /\ last' = Call("validateIterator", (w * kBitCount) + b, 0, FALSE, <<>>, "ok",
                             validateIterator(Self, i, u), i)

(***************************************************************************)
(* Iterator arithmetic on two iterators a and b of the sequence, at the    *)
(* indices i and j; the call record also carries the distance computed.    *)
(***************************************************************************)
IteratorCall(name, i, j, d, ret, it) ==
    Call(name, i, j, FALSE, <<>>, "ok", ret, it) @@ [d |-> d]

\* a + (b - a), compared with b.
ItAddDiff ==
    \E i \in 0 .. MaxBits, j \in 0 .. MaxBits :
      /\ Idle
      /\ HasStorage(Self)
      /\ i <= size(Self)
      /\ j <= size(Self)
      /\ LET a == ItAt(Self, i)
             b == ItAt(Self, j)
             d == ItDiff(b, a)
             c == ItPlus(a, d)
         IN  /\ UNCHANGED <<mContainer, mFreeBitCount, mCapacity, mpBegin, other, config, tree>>
             /\ last' = IteratorCall("itAddDiff", i, j, d, ItEq(c, b), c)

(***************************************************************************)
(* The operators on two bitvectors: applied to every pair of sequences of  *)
(* at most MaxCmpBits bits, with every content of their free tails.  Each  *)
(* such object is what pushBack(value) for every bit of its words followed *)
(* by popBack for every free bit leaves.                                   *)
(***************************************************************************)
WordsFor(n) == (n + kBitCount - 1) \div kBitCount

ObjectsAt(base) ==
    UNION {{[mContainer |-> ws, mFreeBitCount |-> (WordsFor(n) * kBitCount) - n,
             mCapacity |-> WordsFor(n), mpBegin |-> base] :
               ws \in [1 .. WordsFor(n) -> Words]} : n \in 0 .. MaxCmpBits}

InitPair ==
    /\ config = "exceptions"
    /\ last = NoCall
    /\ other \in ObjectsAt(Arena(2))
    /\ tree = NoTree
    /\ \E a \in ObjectsAt(Arena(1)) :
          /\ mContainer = a.mContainer
          /\ mFreeBitCount = a.mFreeBitCount
          /\ mCapacity = a.mCapacity
          /\ mpBegin = a.mpBegin

Compared(name, ret) ==
    /\ Idle
    /\ UNCHANGED <<mContainer, mFreeBitCount, mCapacity, mpBegin, other, config, tree>>
    /\ last' = Call(name, 0, 0, FALSE, <<>>, "ok", ret, NoIt)

\* swap with the other object; a second swap may follow immediately.  The
\* call record also carries the other object before the call and before
\* the call that preceded it.
Swap ==
    /\ Idle \/ last.name = "swap"
    /\ LET r == swap(Self, other)
       IN  /\ mContainer' = r.a.mContainer
           /\ mFreeBitCount' = r.a.mFreeBitCount
           /\ mCapacity' = r.a.mCapacity
           /\ mpBegin' = r.a.mpBegin
           /\ other' = r.b
           /\ UNCHANGED <<config, tree>>
           /\ last' = Call("swap", 0, 0, FALSE, <<>>, "ok", FALSE, NoIt)
                        @@ [preOther  |-> other,
                            prevOther |-> IF Idle THEN other ELSE last.preOther]

\* One sequence of at most MaxCmpBits bits, any content.
InitObject ==
    /\ config = "exceptions"
    /\ last = NoCall
    /\ other = EmptyStore
    /\ tree = NoTree
    /\ \E a \in ObjectsAt(Arena(1)) :
          /\ mContainer = a.mContainer
          /\ mFreeBitCount = a.mFreeBitCount
          /\ mCapacity = a.mCapacity
          /\ mpBegin = a.mpBegin

\* The iterator at index i is moved by d with +=, by -d with -=, and by one
\* with ++ and with --; the call record carries the four results.
ItAdvance ==
    \E i \in 0 .. MaxBits, d \in (-MaxBits) .. MaxBits :
      /\ Idle
      /\ i <= size(Self)
      /\ i + d >= 0
      /\ i + d <= size(Self)
      /\ LET a == ItAt(Self, i)
         IN  /\ UNCHANGED <<mContainer, mFreeBitCount, mCapacity, mpBegin, other, config, tree>>
             /\ last' = IteratorCall("itAdvance", i, d, d, FALSE, ItPlusAssign(a, d))
                          @@ [minus |-> ItMinusAssign(a, -d),
                              inc   |-> ItInc(a),
                              dec   |-> ItDec(a),
                              plus1 |-> ItPlusAssign(a, 1),
                              less1 |-> ItPlusAssign(a, -1)]

OpEqual == Compared("opEqual", opEqual(Self, other))
OpNotEqual == Compared("opNotEqual", opNotEqual(Self, other))
OpLess == Compared("opLess", opLess(Self, other))
OpGreater == Compared("opGreater", opGreater(Self, other))
OpLessEqual == Compared("opLessEqual", opLessEqual(Self, other))
OpGreaterEqual == Compared("opGreaterEqual", opGreaterEqual(Self, other))

(***************************************************************************)
(* set and multiset (src/set.h).  Both derive from the red-black tree      *)
(* (eastl::rbtree), which is modelled from its interface: the keys in      *)
(* order, a position being the index of its element, end() the number of   *)
(* elements.  A tree is [multi, keys]; multi tells a multiset from a set.  *)
(* Each erase returns [t, ret, defined]; defined is FALSE when the call    *)
(* hands the tree a position in front of begin().                          *)
(***************************************************************************)
\* Largest key and largest number of elements in the model.
MaxKey == 2
MaxElements == 4
Keys == 0 .. MaxKey

\* eastl::less<Key>
mcompare(a, b) == a < b

TreeEnd(t) == Len(t.keys)
TreeValue(t, p) == t.keys[p + 1]
TreeLowerBound(t, k) ==
    Cardinality({i \in 1 .. Len(t.keys) : mcompare(t.keys[i], k)})
TreeUpperBound(t, k) ==
    Cardinality({i \in 1 .. Len(t.keys) : ~mcompare(k, t.keys[i])})
TreeFind(t, k) ==
    LET p == TreeLowerBound(t, k)
    IN  IF p # TreeEnd(t) /\ ~mcompare(k, TreeValue(t, p)) THEN p ELSE TreeEnd(t)
TreeDistance(first, lastIt) == lastIt - first

TreeInsert(t, k) ==
    LET p == IF t.multi THEN TreeUpperBound(t, k) ELSE TreeLowerBound(t, k)
    IN  IF ~t.multi /\ TreeFind(t, k) # TreeEnd(t) THEN t
        ELSE [t EXCEPT !.keys = SubSeq(@, 1, p) \o <<k>> \o SubSeq(@, p + 1, Len(@))]

\* rbtree::erase(position) and rbtree::erase(first, last); each returns the
\* position behind the erased elements.
TreeErase(t, position) ==
    IF position >= 0 /\ position < TreeEnd(t)
    THEN [t |-> [t EXCEPT !.keys = SubSeq(@, 1, position) \o SubSeq(@, position + 2, Len(@))],
          ret |-> position, defined |-> TRUE]
    ELSE [t |-> t, ret |-> position, defined |-> FALSE]

TreeEraseRange(t, first, lastIt) ==
    IF first >= 0 /\ first <= lastIt /\ lastIt <= TreeEnd(t)
    THEN [t |-> [t EXCEPT !.keys = SubSeq(@, 1, first) \o SubSeq(@, lastIt + 1, Len(@))],
          ret |-> first, defined |-> TRUE]
    ELSE [t |-> t, ret |-> first, defined |-> FALSE]

\* Reverse iterators of the tree: ++ moves the base one position to the front.
TreeRevInc(r) == Rev(r.base - 1)
TreeRBegin(t) == Rev(TreeEnd(t))
RECURSIVE TreeRevAt(_, _)
TreeRevAt(t, k) == IF k = 0 THEN TreeRBegin(t) ELSE TreeRevInc(TreeRevAt(t, k - 1))

\* set
setErase(t, k) ==
    LET it == TreeFind(t, k)
    IN  IF it # TreeEnd(t)
        THEN [t |-> TreeErase(t, it).t, ret |-> 1, defined |-> TRUE]
        ELSE [t |-> t, ret |-> 0, defined |-> TRUE]

setCount(t, k) == IF TreeFind(t, k) # TreeEnd(t) THEN 1 ELSE 0

setEraseReverse(t, position) ==
    LET r == TreeErase(t, TreeRevInc(position).base)
    IN  [r EXCEPT !.ret = Rev(@)]

setEraseReverseRange(t, first, lastIt) ==
    LET r == TreeEraseRange(t, TreeRevInc(lastIt).base, TreeRevInc(first).base)
    IN  [r EXCEPT !.ret = Rev(@)]

\* multiset
multisetEqualRange(t, k) ==
    [first |-> TreeLowerBound(t, k), second |-> TreeUpperBound(t, k)]

\* Mutant: erases one element, as set::erase does.
multisetEraseOne(t, k) == setErase(t, k)

multisetErase(t, k) ==
    LET range == multisetEqualRange(t, k)
        n     == TreeDistance(range.first, range.second)
    IN  [t |-> TreeEraseRange(t, range.first, range.second).t, ret |-> n,
         defined |-> TRUE]

multisetCount(t, k) ==
    LET range == multisetEqualRange(t, k)
    IN  TreeDistance(range.first, range.second)

multisetEraseReverse(t, position) ==
    LET r == TreeErase(t, TreeRevInc(position).base)
    IN  [r EXCEPT !.ret = Rev(@)]

multisetEraseReverseRange(t, first, lastIt) ==
    LET r == TreeEraseRange(t, TreeRevInc(lastIt).base, TreeRevInc(first).base)
    IN  [r EXCEPT !.ret = Rev(@)]

RECURSIVE EqualRangeSmallLoop(_, _, _)
EqualRangeSmallLoop(t, k, itUpper) ==
    IF itUpper # TreeEnd(t) /\ ~mcompare(k, TreeValue(t, itUpper))
    THEN EqualRangeSmallLoop(t, k, itUpper + 1)
    ELSE itUpper

multisetEqualRangeSmall(t, k) ==
    LET itLower == TreeLowerBound(t, k)
    IN  [first |-> itLower, second |-> EqualRangeSmallLoop(t, k, itLower)]

\* The member of the object's class.
erase_key(t, k) == IF t.multi THEN multisetErase(t, k) ELSE setErase(t, k)
count(t, k) == IF t.multi THEN multisetCount(t, k) ELSE setCount(t, k)
erase_reverse(t, position) ==
    IF t.multi THEN multisetEraseReverse(t, position) ELSE setEraseReverse(t, position)
erase_reverse_range(t, first, lastIt) ==
    IF t.multi THEN multisetEraseReverseRange(t, first, lastIt)
    ELSE setEraseReverseRange(t, first, lastIt)

\* An empty set or an empty multiset.
InitTree ==
    /\ config = "exceptions"
    /\ last = NoCall
    /\ other = EmptyStore
    /\ mContainer = EmptyStore.mContainer
    /\ mFreeBitCount = EmptyStore.mFreeBitCount
    /\ mCapacity = EmptyStore.mCapacity
    /\ mpBegin = EmptyStore.mpBegin
    /\ tree \in {[multi |-> b, keys |-> <<>>] : b \in BOOLEAN}

\* The call record of a set operation also carries the tree before the call.
TreeCall(name, n, m, status, ret) ==
    Call(name, n, m, FALSE, <<>>, status, ret, NoIt) @@ [preTree |-> tree]

\* What a call that hands the tree a position in front of begin() may leave:
\* the tree without some range of its elements.
UndefinedOutcomes(t) ==
    {TreeEraseRange(t, a, b).t : a \in 0 .. TreeEnd(t), b \in 0 .. TreeEnd(t)}

TreeBecomes(r) ==
    /\ IF r.defined THEN tree' = r.t ELSE tree' \in UndefinedOutcomes(r.t)
    /\ UNCHANGED <<mContainer, mFreeBitCount, mCapacity, mpBegin, other, config>>

TreeInsertKey ==
    \E k \in Keys :
      /\ Idle
      /\ Len(tree.keys) < MaxElements
      /\ tree' = TreeInsert(tree, k)
      /\ UNCHANGED <<mContainer, mFreeBitCount, mCapacity, mpBegin, other, config>>
      /\ last' = TreeCall("treeInsert", k, 0, "ok", FALSE)

TreeEraseKey ==
    \E k \in Keys :
      /\ Idle
      /\ LET r == erase_key(tree, k)
         IN  /\ TreeBecomes(r)
             /\ last' = TreeCall("treeEraseKey", k, 0, "ok", r.ret)

TreeCount ==
    \E k \in Keys :
      /\ Idle
      /\ UNCHANGED <<mContainer, mFreeBitCount, mCapacity, mpBegin, other, config, tree>>
      /\ last' = TreeCall("treeCount", k, 0, "ok", count(tree, k))

TreeEqualRangeSmall ==
    \E k \in Keys :
      /\ Idle
      /\ tree.multi
      /\ UNCHANGED <<mContainer, mFreeBitCount, mCapacity, mpBegin, other, config, tree>>
      /\ last' = TreeCall("treeEqualRangeSmall", k, 0, "ok", multisetEqualRangeSmall(tree, k))
                   @@ [range |-> multisetEqualRange(tree, k)]

\* erase(rbegin() + k)
TreeEraseReverse ==
    \E k \in 0 .. MaxElements :
      /\ Idle
      /\ k < TreeEnd(tree)
      /\ LET r == erase_reverse(tree, TreeRevAt(tree, k))
         IN  /\ TreeBecomes(r)
             /\ last' = TreeCall("treeEraseReverse", k, 0,
                                 IF r.defined THEN "ok" ELSE "undefined", r.ret)

\* erase(rbegin() + k1, rbegin() + k2)
TreeEraseReverseRange ==
    \E k1 \in 0 .. MaxElements, k2 \in 0 .. MaxElements :
      /\ Idle
      /\ k1 <= k2
      /\ k2 <= TreeEnd(tree)
      /\ LET r == erase_reverse_range(tree, TreeRevAt(tree, k1), TreeRevAt(tree, k2))
         IN  /\ TreeBecomes(r)
             /\ last' = TreeCall("treeEraseReverseRange", k1, k2,
                                 IF r.defined THEN "ok" ELSE "undefined", r.ret)

NextTree ==
    \/ Return
    \/ TreeInsertKey
    \/ TreeEraseKey
    \/ TreeCount
    \/ TreeEqualRangeSmall
    \/ TreeEraseReverse
    \/ TreeEraseReverseRange

SpecTree == InitTree /\ [][NextTree]_vars

Next ==
    \/ Return
    \/ PushBack
    \/ PushBackValue
    \/ PopBack
    \/ Reserve
    \/ SetCapacity
    \/ Resize
    \/ ResizeValue
    \/ Clear
    \/ ResetLoseMemory
    \/ Assign
    \/ Set
    \/ Test
    \/ At
    \/ Index
    \/ Insert
    \/ InsertN
    \/ Erase
    \/ EraseRange
    \/ EraseReverse
    \/ EraseReverseRange

Spec == Init /\ [][Next]_vars

\* Every operation but setCapacity.
NextWithoutSetCapacity ==
    \/ Return
    \/ PushBack
    \/ PushBackValue
    \/ PopBack
    \/ Reserve
    \/ Resize
    \/ ResizeValue
    \/ Clear
    \/ ResetLoseMemory
    \/ Assign
    \/ Set
    \/ Test
    \/ At
    \/ Index
    \/ Insert
    \/ InsertN
    \/ Erase
    \/ EraseRange
    \/ EraseReverse
    \/ EraseReverseRange

SpecWithoutSetCapacity == Init /\ [][NextWithoutSetCapacity]_vars

\* insert on every sequence pushBack(value) and popBack build.
NextInsert ==
    \/ Return
    \/ PushBackValue
    \/ PopBack
    \/ Insert

SpecInsert == Init /\ [][NextInsert]_vars

\* erase on every sequence pushBack(value) and popBack build.
NextErase ==
    \/ Return
    \/ PushBackValue
    \/ PopBack
    \/ Erase
    \/ EraseRange

SpecErase == Init /\ [][NextErase]_vars

\* resize on every sequence pushBack(value) and popBack build.
NextResize ==
    \/ Return
    \/ PushBackValue
    \/ PopBack
    \/ ResizeValue

SpecResize == Init /\ [][NextResize]_vars

\* pushBack and popBack alone.
NextPush ==
    \/ Return
    \/ PushBack
    \/ PushBackValue
    \/ PopBack

SpecPush == Init /\ [][NextPush]_vars

\* Element access, in any build.
NextAccess ==
    \/ Return
    \/ PushBackValue
    \/ PopBack
    \/ At
    \/ Index
    \/ Test

SpecAccess == InitAnyBuild /\ [][NextAccess]_vars

\* The comparison operators on pairs of sequences.
NextCompare ==
    \/ Return
    \/ OpEqual
    \/ OpNotEqual
    \/ OpLess
    \/ OpGreater
    \/ OpLessEqual
    \/ OpGreaterEqual

SpecCompare == InitPair /\ [][NextCompare]_vars

\* reserve on every sequence pushBack(value) and popBack build.
NextReserve ==
    \/ Return
    \/ PushBackValue
    \/ PopBack
    \/ Reserve

SpecReserve == Init /\ [][NextReserve]_vars

\* Iterator arithmetic on every sequence pushBack(value) and popBack build.
NextIterator ==
    \/ Return
    \/ PushBackValue
    \/ PopBack
    \/ ItAddDiff

SpecIterator == Init /\ [][NextIterator]_vars

\* insert(position, n, value) on every sequence pushBack(value) and popBack
\* build.
NextInsertN ==
    \/ Return
    \/ PushBackValue
    \/ PopBack
    \/ InsertN

SpecInsertN == Init /\ [][NextInsertN]_vars

\* swap on pairs of sequences.
NextSwap ==
    \/ Return
    \/ Swap

SpecSwap == InitPair /\ [][NextSwap]_vars

\* The reverse erase overloads on every sequence pushBack(value) and popBack
\* build.
NextEraseReverse ==
    \/ Return
    \/ PushBackValue
    \/ PopBack
    \/ EraseReverse
    \/ EraseReverseRange

SpecEraseReverse == Init /\ [][NextEraseReverse]_vars

\* validateIterator on every sequence pushBack(value) and popBack build.
NextValidate ==
    \/ Return
    \/ PushBackValue
    \/ PopBack
    \/ ValidateIterator

SpecValidate == Init /\ [][NextValidate]_vars

\* insert and erase with their debug checks, on every sequence
\* pushBack(value) and popBack build.
NextDebug ==
    \/ Return
    \/ PushBackValue
    \/ PopBack
    \/ InsertChecked
    \/ EraseChecked

SpecDebug == InitDebug /\ [][NextDebug]_vars

\* Moving an iterator within a sequence.
\* The iterators at the indices i and j are compared with each operator and
\* subtracted; the call record carries the results.
ItCompare ==
    \E i \in 0 .. MaxBits, j \in 0 .. MaxBits :
      /\ Idle
      /\ i <= size(Self)
      /\ j <= size(Self)
      /\ LET a == ItAt(Self, i)
             b == ItAt(Self, j)
         IN  /\ UNCHANGED <<mContainer, mFreeBitCount, mCapacity, mpBegin, other, config, tree>>
             /\ last' = IteratorCall("itCompare", i, j, ItDiff(b, a), FALSE, a)
                          @@ [b  |-> b,
                              lt |-> ItLt(a, b),
                              eq |-> ItEq(a, b),
                              ne |-> ItNe(a, b),
                              le |-> ItLe(a, b),
                              gt |-> ItGt(a, b),
                              ge |-> ItGe(a, b)]

\* Comparison and subtraction of iterators into one sequence.
NextItCompare ==
    \/ Return
    \/ ItCompare

SpecItCompare == InitObject /\ [][NextItCompare]_vars

NextAdvance ==
    \/ Return
    \/ ItAdvance

SpecAdvance == InitObject /\ [][NextAdvance]_vars

\* MoveBits on every sequence pushBack(value) and popBack build.
NextMoveBits ==
    \/ Return
    \/ PushBackValue
    \/ PopBack
    \/ MoveBitsCall

SpecMoveBits == Init /\ [][NextMoveBits]_vars

\* Writes through proxies on every sequence pushBack(value) and popBack
\* build.
NextProxy ==
    \/ Return
    \/ PushBackValue
    \/ PopBack
    \/ ProxyAssign
    \/ ProxyAssignRef

SpecProxy == Init /\ [][NextProxy]_vars

\* set on every sequence pushBack(value) and popBack build.
NextSet ==
    \/ Return
    \/ PushBackValue
    \/ PopBack
    \/ Set

SpecSet == Init /\ [][NextSet]_vars

(***************************************************************************)
(* The logical content of a bitvector: bit i is bit (i mod kBitCount) of   *)
(* word (i div kBitCount).                                                 *)
(***************************************************************************)
WordCount(bv) == Len(bv.mContainer)
LogicalSize(bv) == (WordCount(bv) * kBitCount) - bv.mFreeBitCount
BitAt(bv, i) == WordBit(bv.mContainer[(i \div kBitCount) + 1], i % kBitCount) = 1
Bits(bv) == [i \in 1 .. LogicalSize(bv) |-> BitAt(bv, i - 1)]
Succeeded(name) == last.name = name /\ last.status = "ok"

(***************************************************************************)
(* C1: in every reachable state freeBitCount < W, and size() equals        *)
(* wordCount*W - freeBitCount, the number of logical bits held.            *)
(***************************************************************************)
C1_SizeInvariant ==
    /\ mFreeBitCount < kBitCount
    /\ size(Self) = LogicalSize(Self)

(***************************************************************************)
(* C9: a size-increasing operation whose word-store growth fails leaves    *)
(* the sequence in its prior state: same size, same bits, freeBitCount < W.*)
(***************************************************************************)
GrowingCalls ==
    {"pushBack", "pushBackValue", "resize", "resizeValue", "insert", "insertN",
     "set", "assign"}

C9_FailedGrowthRestores ==
    (last.name \in GrowingCalls /\ last.status = "bad_alloc")
        => /\ size(Self) = size(last.pre)
           /\ Bits(Self) = Bits(last.pre)
           /\ mFreeBitCount < kBitCount

(***************************************************************************)
(* C10: setCapacity(n) with n < size() leaves size() = n, keeps the bits   *)
(* below n, and keeps size() = wordCount*W - freeBitCount >= 0.            *)
(***************************************************************************)
C10_SetCapacityResizes ==
    (/\ Succeeded("setCapacity")
     /\ HasStorage(last.pre)
     /\ last.n < size(last.pre))
        => /\ size(Self) = last.n
           /\ LogicalSize(Self) >= 0
           /\ size(Self) = LogicalSize(Self)
           /\ \A i \in 0 .. (last.n - 1) : BitAt(Self, i) = BitAt(last.pre, i)

(***************************************************************************)
(* C2: insert(p, v) increases size() by exactly 1, leaves every bit below  *)
(* p unchanged, makes bit p equal to v, moves every old bit i >= p to      *)
(* index i + 1, and returns the iterator at index p of the current         *)
(* storage.                                                                *)
(***************************************************************************)
CoordinateOf(bv, i) == Ref(bv.mpBegin + (i \div kBitCount), i % kBitCount)

C2_InsertShiftsRight ==
    Succeeded("insert") =>
        LET pre == last.pre
            p   == last.n
        IN  /\ size(Self) = size(pre) + 1
            /\ LogicalSize(Self) = LogicalSize(pre) + 1
            /\ \A i \in 0 .. (p - 1) : BitAt(Self, i) = BitAt(pre, i)
            /\ BitAt(Self, p) = last.value
            /\ \A i \in p .. (LogicalSize(pre) - 1) : BitAt(Self, i + 1) = BitAt(pre, i)
            /\ last.it = CoordinateOf(Self, p)

\* An insert in front of existing bits into a sequence whose last word is
\* full: a word is appended, the store is reallocated, and the last old bit
\* moves across the word boundary.
C2_Witness ==
    /\ Succeeded("insert")
    /\ last.pre.mFreeBitCount = 0
    /\ last.n < LogicalSize(last.pre)
    /\ mpBegin # last.pre.mpBegin
    /\ BitAt(last.pre, last.n) # last.value
    /\ BitAt(last.pre, LogicalSize(last.pre) - 1)

(***************************************************************************)
(* C3: erase(first, last) decreases size() by exactly last - first, leaves *)
(* every bit below first unchanged, moves every old bit last + k to index  *)
(* first + k, changes nothing when first = last, and returns the iterator  *)
(* at index first.  erase(position) is erase(position, position + 1).      *)
(***************************************************************************)
C3_EraseShiftsLeft ==
    (Succeeded("erase") \/ Succeeded("eraseRange")) =>
        LET pre    == last.pre
            first  == last.n
            lst    == IF last.name = "erase" THEN last.n + 1 ELSE last.m
            oldLen == LogicalSize(pre)
        IN  /\ size(Self) = size(pre) - (lst - first)
            /\ LogicalSize(Self) = oldLen - (lst - first)
            /\ \A i \in 0 .. (first - 1) : BitAt(Self, i) = BitAt(pre, i)
            /\ \A k \in 0 .. (oldLen - lst - 1) : BitAt(Self, first + k) = BitAt(pre, lst + k)
            /\ (first = lst => Self = pre)
            /\ last.it = CoordinateOf(Self, first)

\* A range that spans a word boundary is erased in front of a set bit, and
\* the last word is given back.
C3_Witness ==
    /\ Succeeded("eraseRange")
    /\ last.n < kBitCount
    /\ last.m > kBitCount
    /\ last.m < LogicalSize(last.pre)
    /\ BitAt(last.pre, last.m)
    /\ ~BitAt(last.pre, last.n)
    /\ WordCount(Self) < WordCount(last.pre)

(***************************************************************************)
(* C4: resize(n, v) with n > oldSize leaves size() = n, every bit in       *)
(* [oldSize, n) equal to v and every bit below oldSize unchanged.          *)
(***************************************************************************)
C4_ResizeFills ==
    (Succeeded("resizeValue") /\ last.n > LogicalSize(last.pre)) =>
        LET pre == last.pre
        IN  /\ size(Self) = last.n
            /\ LogicalSize(Self) = last.n
            /\ \A i \in LogicalSize(pre) .. (last.n - 1) : BitAt(Self, i) = last.value
            /\ \A i \in 0 .. (LogicalSize(pre) - 1) : BitAt(Self, i) = BitAt(pre, i)

\* Growth from a partially used last word, whose free bits differ from the
\* fill value, across the word boundary.
C4_Witness ==
    /\ Succeeded("resizeValue")
    /\ last.pre.mFreeBitCount > 0
    /\ last.n > WordCount(last.pre) * kBitCount
    /\ BitAt(last.pre, LogicalSize(last.pre)) # last.value
    /\ \E i \in 0 .. (LogicalSize(last.pre) - 1) : BitAt(last.pre, i) # last.value

(***************************************************************************)
(* C5: pushBack(v) immediately followed by popBack() restores size(),      *)
(* wordCount, freeBitCount and every bit; pushBack(v) alone increases      *)
(* size() by 1, makes the new last bit v and appends a word exactly when   *)
(* freeBitCount was 0; popBack() removes the last word exactly when the    *)
(* free count reaches W.                                                   *)
(***************************************************************************)
C5_PushPop ==
    /\ (last.name = "popBack" /\ last.after \in {"pushBack", "pushBackValue"}) =>
          /\ size(Self) = size(last.prev)
          /\ WordCount(Self) = WordCount(last.prev)
          /\ mFreeBitCount = last.prev.mFreeBitCount
          /\ Bits(Self) = Bits(last.prev)
    /\ (Succeeded("pushBackValue") \/ Succeeded("pushBack")) =>
          /\ size(Self) = size(last.pre) + 1
          /\ WordCount(Self) = WordCount(last.pre)
                                 + (IF last.pre.mFreeBitCount = 0 THEN 1 ELSE 0)
          /\ \A i \in 0 .. (LogicalSize(last.pre) - 1) : BitAt(Self, i) = BitAt(last.pre, i)
          /\ (last.name = "pushBackValue" => BitAt(Self, LogicalSize(Self) - 1) = last.value)
    /\ last.name = "popBack" =>
          /\ size(Self) = size(last.pre) - 1
          /\ WordCount(Self) = WordCount(last.pre)
                                 - (IF last.pre.mFreeBitCount + 1 = kBitCount THEN 1 ELSE 0)
          /\ mFreeBitCount < kBitCount

\* popBack right after a pushBack(true) that appended a second word.
C5_Witness ==
    /\ last.name = "popBack"
    /\ last.after = "pushBackValue"
    /\ last.prev.mFreeBitCount = 0
    /\ WordCount(last.prev) >= 1
    /\ WordCount(last.pre) = WordCount(last.prev) + 1
    /\ BitAt(last.pre, LogicalSize(last.pre) - 1)

(***************************************************************************)
(* C6: two sequences compare equal iff they have the same size() and the   *)
(* same bit at every index below size(); the free tails, the capacity and  *)
(* the way the sequences were built play no part.                          *)
(***************************************************************************)
SameLogicalBits(a, b) ==
    /\ LogicalSize(a) = LogicalSize(b)
    /\ \A i \in 0 .. (LogicalSize(a) - 1) : BitAt(a, i) = BitAt(b, i)

C6_EqualIffSameBits ==
    /\ last.name = "opEqual" => (last.ret <=> SameLogicalBits(Self, other))
    /\ last.name = "opNotEqual" => (last.ret <=> ~SameLogicalBits(Self, other))

\* Equal sequences whose last words differ in their free bits.
C6_Witness ==
    /\ last.name = "opEqual"
    /\ last.ret
    /\ LogicalSize(Self) > kBitCount
    /\ mContainer # other.mContainer

(***************************************************************************)
(* C7: a < b is lexicographic over the logical bits with false < true: at  *)
(* the first index where they differ a has false and b has true, or a is a *)
(* proper prefix of b; free tails play no part; >, <=, >= are b < a,       *)
(* !(b < a), !(a < b).                                                     *)
(***************************************************************************)
LexLess(a, b) ==
    \/ \E k \in 0 .. (Min(LogicalSize(a), LogicalSize(b)) - 1) :
          /\ \A i \in 0 .. (k - 1) : BitAt(a, i) = BitAt(b, i)
          /\ ~BitAt(a, k)
          /\ BitAt(b, k)
    \/ /\ LogicalSize(a) < LogicalSize(b)
       /\ \A i \in 0 .. (LogicalSize(a) - 1) : BitAt(a, i) = BitAt(b, i)

C7_LessIsLexicographic ==
    /\ last.name = "opLess" => (last.ret <=> LexLess(Self, other))
    /\ last.name = "opGreater" => (last.ret <=> LexLess(other, Self))
    /\ last.name = "opLessEqual" => (last.ret <=> ~LexLess(other, Self))
    /\ last.name = "opGreaterEqual" => (last.ret <=> ~LexLess(Self, other))

\* A proper prefix, whose free tail holds a set bit where the longer sequence
\* has a clear one, compares less.
C7_Witness ==
    /\ last.name = "opLess"
    /\ last.ret
    /\ LogicalSize(Self) < LogicalSize(other)
    /\ WordCount(Self) = WordCount(other)
    /\ mFreeBitCount > 0
    /\ BitAt(Self, LogicalSize(Self))
    /\ ~BitAt(other, LogicalSize(Self))
    /\ \E i \in 0 .. (LogicalSize(Self) - 1) : BitAt(Self, i)

(***************************************************************************)
(* C8: at(n) signals an out-of-range error whenever n >= size() and then   *)
(* leaves words and freeBitCount unchanged; whenever n < size() it yields  *)
(* the bit at index n, the bit operator[](n) and test(n, d) yield.         *)
(***************************************************************************)
AtYieldsBit ==
    last.n < LogicalSize(last.pre) =>
        /\ last.status = "ok"
        /\ last.ret = BitAt(last.pre, last.n)
        /\ \A u \in BOOLEAN, d \in BOOLEAN :
              /\ last.ret = index(last.pre, last.n, u)
              /\ last.ret = test(last.pre, last.n, d, u)

C11_SetGrowsThenWrites ==
    Succeeded("set") =>
        LET pre == last.pre
            n   == last.n
        IN  /\ BitAt(Self, n) = last.value
            /\ IF n >= LogicalSize(pre)
               THEN /\ size(Self) = n + 1
                    /\ LogicalSize(Self) = n + 1
                    /\ \A i \in 0 .. (LogicalSize(pre) - 1) : BitAt(Self, i) = BitAt(pre, i)
               ELSE /\ size(Self) = size(pre)
                    /\ LogicalSize(Self) = LogicalSize(pre)
                    /\ \A i \in (0 .. (LogicalSize(pre) - 1)) \ {n} :
                          BitAt(Self, i) = BitAt(pre, i)

\* set(n, true) beyond the end of a sequence with a partially used last
\* word that holds a set bit: a word is appended and bit n lies in it.
C11_Witness ==
    /\ Succeeded("set")
    /\ last.value
    /\ last.pre.mFreeBitCount > 0
    /\ last.n >= WordCount(last.pre) * kBitCount
    /\ WordCount(Self) = WordCount(last.pre) + 1
    /\ \E i \in 0 .. (LogicalSize(last.pre) - 1) : BitAt(last.pre, i)

(***************************************************************************)
(* C12: test(n, defaultValue) never fails and never changes the sequence:  *)
(* for every n < size() it returns the bit stored at index n whatever      *)
(* defaultValue is, and for every n >= size() (on an empty sequence and    *)
(* for n inside the free tail of the last word too) it returns             *)
(* defaultValue.                                                           *)
(***************************************************************************)
C12_TestReadsOrDefaults ==
    last.name = "test" =>
        /\ last.status = "ok"
        /\ Self = last.pre
        /\ last.n < LogicalSize(last.pre) => last.ret = BitAt(last.pre, last.n)
        /\ last.n >= LogicalSize(last.pre) => last.ret = last.value

\* test(size(), false) on a sequence whose last word has a set bit right
\* behind the last bit in use.
C12_Witness ==
    /\ last.name = "test"
    /\ last.n = LogicalSize(last.pre)
    /\ last.pre.mFreeBitCount > 0
    /\ BitAt(last.pre, last.n)
    /\ ~last.value
    /\ ~last.ret

(***************************************************************************)
(* C13: for every n and every prior state resize(n) leaves size() = n,     *)
(* wordCount = ceil(n/W) and freeBitCount = wordCount*W - n, and every bit *)
(* below min(old size, n) unchanged.                                       *)
(***************************************************************************)
C13_ResizeSetsSize ==
    Succeeded("resize") =>
        LET pre == last.pre
            n   == last.n
        IN  /\ size(Self) = n
            /\ WordCount(Self) * kBitCount >= n
            /\ (WordCount(Self) - 1) * kBitCount < n
            /\ mFreeBitCount = (WordCount(Self) * kBitCount) - n
            /\ (n % kBitCount = 0) => mFreeBitCount = 0
            /\ (n = 0) => WordCount(Self) = 0
            /\ \A i \in 0 .. (Min(LogicalSize(pre), n) - 1) : BitAt(Self, i) = BitAt(pre, i)

\* A resize that gives a word back and leaves the last word partially used,
\* with another count of free bits than before and a set bit kept.
C13_Witness ==
    /\ Succeeded("resize")
    /\ WordCount(Self) < WordCount(last.pre)
    /\ mFreeBitCount > 0
    /\ last.pre.mFreeBitCount > 0
    /\ mFreeBitCount # last.pre.mFreeBitCount
    /\ \E i \in 0 .. (last.n - 1) : BitAt(Self, i)

(***************************************************************************)
(* C14: reserve(n) changes only capacity: afterwards capacity() >= n, and  *)
(* size(), freeBitCount and every bit below size() are as before; a        *)
(* following run of pushBack calls that keeps size() <= n never needs the  *)
(* word store to grow its capacity.                                        *)
(***************************************************************************)
\* k calls of pushBack() in a row.
RECURSIVE PushBackRun(_, _, _)
PushBackRun(bv, k, e) ==
    IF k = 0 THEN Ok(bv)
    ELSE LET r == pushBack(bv, e)
         IN  IF r.ok THEN PushBackRun(r.bv, k - 1, e) ELSE r

\* A word store that cannot allocate: a growth of its capacity fails.
CannotGrow == [alloc |-> FALSE, cap |-> 0, g |-> 0]

C14_ReserveOnlyCapacity ==
    Succeeded("reserve") =>
        /\ capacity(Self) >= last.n
        /\ size(Self) = size(last.pre)
        /\ mFreeBitCount = last.pre.mFreeBitCount
        /\ mContainer = last.pre.mContainer
        /\ \A k \in 0 .. MaxBits :
              (LogicalSize(Self) + k <= last.n) =>
                  LET r == PushBackRun(Self, k, CannotGrow)
                  IN  /\ r.ok
                      /\ r.bv.mCapacity = mCapacity
                      /\ r.bv.mpBegin = mpBegin
                      /\ size(r.bv) = size(Self) + k

\* reserve of a bit count that is no multiple of the word size, above the
\* capacity, on a sequence whose last word is full: the store is
\* reallocated, and the next pushBack needs a word.
C14_Witness ==
    /\ Succeeded("reserve")
    /\ last.n > capacity(last.pre)
    /\ last.n % kBitCount # 0
    /\ mpBegin # last.pre.mpBegin
    /\ mFreeBitCount = 0
    /\ WordCount(Self) > 0
    /\ last.n > LogicalSize(Self)
    /\ \E i \in 0 .. (LogicalSize(Self) - 1) : BitAt(Self, i)

(***************************************************************************)
(* C15: for any two iterators a and b into the same sequence, at any       *)
(* indices in [0, size()], in either order, in the same word or not,       *)
(* (a + (b - a)) == b, b - a being the signed difference of their indices. *)
(***************************************************************************)
C15_AddDifference ==
    last.name = "itAddDiff" =>
        /\ last.ret
        /\ last.d = last.m - last.n
        /\ last.it = CoordinateOf(last.pre, last.m)

\* b lies in the word before a's, at a higher bit offset than a: the
\* distance is negative and no multiple of the word size.
C15_Witness ==
    /\ last.name = "itAddDiff"
    /\ last.d < 0
    /\ last.m \div kBitCount < last.n \div kBitCount
    /\ last.m % kBitCount > last.n % kBitCount
    /\ last.ret

(***************************************************************************)
(* C16: for every position p in [0, size()] and count n, insert(p, n,      *)
(* value) increases size() by exactly n, leaves the bits below p           *)
(* unchanged, sets every bit in [p, p + n) to value and moves every old    *)
(* bit i >= p to index i + n; with n = 0 the sequence is unchanged.        *)
(***************************************************************************)
C16_InsertNShiftsRight ==
    Succeeded("insertN") =>
        LET pre == last.pre
            p   == last.n
            n   == last.m
        IN  /\ size(Self) = size(pre) + n
            /\ LogicalSize(Self) = LogicalSize(pre) + n
            /\ \A i \in 0 .. (p - 1) : BitAt(Self, i) = BitAt(pre, i)
            /\ \A i \in p .. (p + n - 1) : BitAt(Self, i) = last.value
            /\ \A i \in p .. (LogicalSize(pre) - 1) : BitAt(Self, i + n) = BitAt(pre, i)
            /\ (n = 0) => Self = pre

\* Two bits or more are inserted in front of existing bits, the sequence
\* gains a word, the first bit of the gap held the other value, and a set
\* bit moves across the word boundary.
C16_Witness ==
    /\ Succeeded("insertN")
    /\ last.m >= 2
    /\ last.n < LogicalSize(last.pre)
    /\ WordCount(Self) > WordCount(last.pre)
    /\ WordCount(last.pre) > 0
    /\ ~last.value
    /\ BitAt(last.pre, last.n)
    /\ BitAt(last.pre, LogicalSize(last.pre) - 1)

(***************************************************************************)
(* C17: after a.swap(b), a has exactly the size(), freeBitCount and bits b *)
(* had before and b has those a had before; swapping twice restores both   *)
(* sequences; swap does no bit-wise work: each object takes over the       *)
(* other's words and storage as they are, free tails included.             *)
(***************************************************************************)
C17_SwapExchanges ==
    last.name = "swap" =>
        /\ size(Self) = size(last.preOther)
        /\ mFreeBitCount = last.preOther.mFreeBitCount
        /\ Bits(Self) = Bits(last.preOther)
        /\ size(other) = size(last.pre)
        /\ other.mFreeBitCount = last.pre.mFreeBitCount
        /\ Bits(other) = Bits(last.pre)
        /\ Self = last.preOther
        /\ other = last.pre
        /\ (last.after = "swap") => (Self = last.prev /\ other = last.prevOther)

\* The second of two swaps in a row, of sequences that differ in size, in
\* word count and in free bit count.
C17_Witness ==
    /\ last.name = "swap"
    /\ last.after = "swap"
    /\ WordCount(Self) > WordCount(other)
    /\ WordCount(other) > 0
    /\ mFreeBitCount # other.mFreeBitCount
    /\ mFreeBitCount > 0
    /\ other.mFreeBitCount > 0
    /\ Bits(Self) # Bits(other)

(***************************************************************************)
(* C18: the reverse-iterator erase overloads remove exactly the bits their *)
(* arguments designate: erase(rbegin() + k) removes the bit at index       *)
(* size() - 1 - k, and erase(rfirst, rlast) removes the bits of the        *)
(* forward range [rlast.base(), rfirst.base()); the remaining bits keep    *)
(* their relative order.                                                   *)
(***************************************************************************)
\* The sequence s without its elements at the 0-based indices [a, b).
WithoutRange(s, a, b) == SubSeq(s, 1, a) \o SubSeq(s, b + 1, Len(s))

C18_ReverseEraseRemoves ==
    /\ Succeeded("eraseReverse") =>
          LET old == Bits(last.pre)
              i   == Len(old) - 1 - last.n
          IN  /\ size(Self) = Len(old) - 1
              /\ Bits(Self) = WithoutRange(old, i, i + 1)
    /\ Succeeded("eraseReverseRange") =>
          LET old == Bits(last.pre)
          IN  /\ size(Self) = Len(old) - (last.m - last.n)
              /\ Bits(Self) = WithoutRange(old, Len(old) - last.m, Len(old) - last.n)

\* erase(rbegin() + k) of a clear bit in the first word of a sequence of two
\* words that is no palindrome around it: the bit k places from the front
\* is set.
C18_Witness ==
    /\ Succeeded("eraseReverse")
    /\ WordCount(last.pre) > 1
    /\ LogicalSize(last.pre) - 1 - last.n < kBitCount
    /\ last.n > 0
    /\ ~BitAt(last.pre, LogicalSize(last.pre) - 1 - last.n)
    /\ BitAt(last.pre, last.n)
    /\ BitAt(last.pre, LogicalSize(last.pre) - 1)

(***************************************************************************)
(* C19: assign(first, last), and the range constructor built on it,        *)
(* discards all prior content and leaves size() equal to the length of the *)
(* source range and bit i equal to the i-th source value, for any prior    *)
(* state of the sequence.                                                  *)
(***************************************************************************)
C19_AssignReplaces ==
    (Succeeded("assign") \/ last.name = "ctorRange") =>
        /\ size(Self) = Len(last.src)
        /\ LogicalSize(Self) = Len(last.src)
        /\ Bits(Self) = last.src
        /\ mFreeBitCount < kBitCount

\* assign of a range longer than a word, holding both values, to a
\* non-empty sequence with free bits and another content.
C19_Witness ==
    /\ Succeeded("assign")
    /\ WordCount(last.pre) > 0
    /\ last.pre.mFreeBitCount > 0
    /\ Len(last.src) > kBitCount
    /\ \E i \in 1 .. Len(last.src) : last.src[i]
    /\ \E i \in 1 .. Len(last.src) : ~last.src[i]
    /\ \E i \in 0 .. (LogicalSize(last.pre) - 1) : BitAt(last.pre, i) # last.src[i + 1]

(***************************************************************************)
(* C20: for a sequence of size s, validateIterator classifies the iterator *)
(* at linear index i as valid and dereferenceable when 0 <= i < s, as      *)
(* valid but not dereferenceable when i = s (the end position, whether     *)
(* freeBitCount is 0 or not, whether the sequence is empty or not), and as *)
(* invalid for every other coordinate; the classification depends on the   *)
(* coordinate and the bounds only, never on the value of a bit.            *)
(***************************************************************************)
C20_ValidateClassifies ==
    last.name = "validateIterator" =>
        LET s == LogicalSize(last.pre)
            i == last.n
        IN  /\ (0 <= i /\ i < s) => last.ret = IsfDereferenceable
            /\ (i = s) => last.ret = IsfValidCurrent
            /\ (i < 0 \/ i > s) => last.ret = isf_none
            /\ \A u \in BOOLEAN : validateIterator(last.pre, last.it, u) = last.ret

\* The same classification for every position whose classification reads
\* no bit: all but those in the word at the end of a store whose last word
\* is full.
C20_ClassifiesWithoutRead ==
    (/\ last.name = "validateIterator"
     /\ ~(last.pre.mFreeBitCount = 0
           /\ last.it.mpBitWord = last.pre.mpBegin + WordCount(last.pre))) =>
        C20_ValidateClassifies

\* validateIterator(end()) on a non-empty sequence whose last word is full
\* answers isf_none.
C20_Witness ==
    /\ last.name = "validateIterator"
    /\ last.n = LogicalSize(last.pre)
    /\ WordCount(last.pre) > 0
    /\ last.pre.mFreeBitCount = 0
    /\ last.ret = isf_none

(***************************************************************************)
(* C21: the debug checks inside erase and insert never fire on legal       *)
(* calls: erase(position) on a dereferenceable position passes its entry   *)
(* check and the assertion after the erase that the position is still      *)
(* valid (also when the erased bit is the last one and the new size is a   *)
(* multiple of W, for either value of the erased bit), and insert at any   *)
(* position of [begin(), end()], end() included, passes its entry check.   *)
(***************************************************************************)
C21_DebugChecksPass ==
    /\ last.name = "eraseChecked" => (last.entry /\ last.post)
    /\ (last.name = "insertChecked" /\ last.status # "bad_alloc") => last.entry

\* The checks pass on every call in which no validation looks at the word
\* at the end of a store whose last word is full.
C21_ChecksPassWithoutRead ==
    /\ last.name = "eraseChecked" =>
          /\ last.entry
          /\ (mFreeBitCount # 0 \/ last.n < LogicalSize(Self)) => last.post
    /\ (last.name = "insertChecked" /\ last.status # "bad_alloc") =>
          ((last.pre.mFreeBitCount # 0 \/ last.n < LogicalSize(last.pre)) => last.entry)

\* erase of the last bit of a sequence of W + 1 bits: the assertion after the
\* erase fires.
C21_Witness ==
    /\ last.name = "eraseChecked"
    /\ last.n = LogicalSize(last.pre) - 1
    /\ LogicalSize(Self) = kBitCount
    /\ mFreeBitCount = 0
    /\ last.entry
    /\ ~last.post
    /\ last.status = "assert_failed"

(***************************************************************************)
(* C22: for an iterator at coordinate (w, o) and any signed d with         *)
(* w*W + o + d >= 0, it += d yields (floor((w*W + o + d) / W),             *)
(* (w*W + o + d) mod W) with the non-negative remainder: -1 from offset 0  *)
(* gives offset W - 1 of the previous word, -W from offset 0 gives offset  *)
(* 0 of the previous word; -= d equals += -d, and ++ / -- equal            *)
(* += 1 / += -1.                                                           *)
(***************************************************************************)
C22_PlusAssignIsFloor ==
    last.name = "itAdvance" =>
        LET x == last.n + last.m
        IN  /\ last.it = Ref(last.pre.mpBegin + (x \div kBitCount), x % kBitCount)
            /\ last.it.mnBitIndex >= 0
            /\ last.it.mnBitIndex < kBitCount
            /\ last.minus = last.it
            /\ last.inc = last.plus1
            /\ last.dec = last.less1
            /\ last.inc = CoordinateOf(last.pre, last.n + 1)
            /\ (last.n > 0) => last.dec = CoordinateOf(last.pre, last.n - 1)

\* A move backwards from offset 0 of the second word by a distance that is
\* at least 1 and at most W.
C22_Witness ==
    /\ last.name = "itAdvance"
    /\ last.n = kBitCount
    /\ last.m < 0
    /\ last.it.mpBitWord = last.pre.mpBegin
    /\ last.dec = Ref(last.pre.mpBegin, kBitCount - 1)

(***************************************************************************)
(* C23: for every source range [start, end) with start <= end and every    *)
(* destination in the same storage, overlapping or not, MoveBits makes     *)
(* exactly end - start single-bit copies and leaves the bit at dest + k    *)
(* equal to the value the bit at start + k had before, for every k in      *)
(* [0, end - start), changing no bit outside [dest, dest + (end - start)); *)
(* it copies low to high when dest <= start and high to low otherwise.     *)
(***************************************************************************)
\* The object after the copies cs are made one after the other.
RECURSIVE ApplyCopies(_, _)
ApplyCopies(bv, cs) ==
    IF cs = <<>> THEN bv
    ELSE ApplyCopies(RefAssignRef(bv, Head(cs).to, Head(cs).from), Tail(cs))

C23_MoveBitsCopiesRange ==
    last.name = "moveBits" =>
        LET pre == last.pre
            s   == last.n
            len == last.m - last.n
            d   == last.dest
            cs  == last.copies
        IN  /\ Len(cs) = len
            /\ Self = ApplyCopies(pre, cs)
            /\ \A k \in 0 .. (len - 1) : BitAt(Self, d + k) = BitAt(pre, s + k)
            /\ \A i \in (0 .. ((WordCount(pre) * kBitCount) - 1)) \ (d .. (d + len - 1)) :
                  BitAt(Self, i) = BitAt(pre, i)
            /\ WordCount(Self) = WordCount(pre)
            /\ mFreeBitCount = pre.mFreeBitCount
            /\ \A j \in 1 .. len :
                  IF d <= s
                  THEN /\ cs[j].from = CoordinateOf(pre, s + j - 1)
                       /\ cs[j].to = CoordinateOf(pre, d + j - 1)
                  ELSE /\ cs[j].from = CoordinateOf(pre, s + len - j)
                       /\ cs[j].to = CoordinateOf(pre, d + len - j)

\* A move of three bits or more to a destination one place to the right,
\* across a word boundary, of bits that are not all alike: a copy from low
\* to high would smear the first bit over the range.
C23_Witness ==
    /\ last.name = "moveBits"
    /\ last.m - last.n >= 3
    /\ last.dest = last.n + 1
    /\ last.n < kBitCount
    /\ last.dest + (last.m - last.n) > kBitCount
    /\ BitAt(last.pre, last.n)
    /\ ~BitAt(last.pre, last.n + 1)
    /\ BitAt(last.pre, last.n + 2)

(***************************************************************************)
(* C24: a write of a boolean through a proxy at (word, bitOffset) makes    *)
(* exactly that bit equal to the written value and leaves every other bit  *)
(* of that word and every other word unchanged, for every bitOffset in     *)
(* 0 .. W-1; an assignment of one proxy to another copies the source's bit *)
(* value into the target's bit and does not change which bit the target    *)
(* refers to.                                                              *)
(***************************************************************************)
\* Every bit of every word of b equals that of a, but bit i, which is v.
OnlyBitChanged(a, b, i, v) ==
    /\ WordCount(b) = WordCount(a)
    /\ b.mFreeBitCount = a.mFreeBitCount
    /\ \A k \in 0 .. ((WordCount(a) * kBitCount) - 1) :
          BitAt(b, k) = IF k = i THEN v ELSE BitAt(a, k)

C24_ProxyWritesOneBit ==
    /\ last.name = "proxyAssign" =>
          /\ OnlyBitChanged(last.pre, Self, last.n, last.value)
          /\ last.it = CoordinateOf(last.pre, last.n)
    /\ last.name = "proxyAssignRef" =>
          /\ OnlyBitChanged(last.pre, Self, last.n, BitAt(last.pre, last.m))
          /\ last.it = CoordinateOf(last.pre, last.n)

\* The set bit at offset W - 1 of the first word is assigned to a clear bit
\* of the second word, whose other bits are set.
C24_Witness ==
    /\ last.name = "proxyAssignRef"
    /\ last.m = kBitCount - 1
    /\ last.n > kBitCount
    /\ ~BitAt(last.pre, last.n)
    /\ BitAt(last.pre, last.m)
    /\ BitAt(last.pre, kBitCount)
    /\ BitAt(Self, last.n)

(***************************************************************************)
(* C25: for set and multiset, erase(reverse_iterator first,                *)
(* reverse_iterator last) removes exactly the elements of the reverse      *)
(* range [first, last), the elements that erasing one at a time from first *)
(* up to last would remove, leaves every other element in place, and is    *)
(* well defined when last = rend().                                        *)
(***************************************************************************)
\* The keys of t without the elements rbegin() + k1 .. rbegin() + (k2 - 1).
WithoutReverseRange(t, k1, k2) ==
    WithoutRange(t.keys, Len(t.keys) - k2, Len(t.keys) - k1)

C25_TreeReverseRangeErase ==
    last.name = "treeEraseReverseRange" =>
        /\ last.status = "ok"
        /\ tree.keys = WithoutReverseRange(last.preTree, last.n, last.m)
        /\ tree.multi = last.preTree.multi

\* What the overloads do remove: the range one place further to the front,
\* when there is an element in front of the range; and the single-position
\* overload removes the element its argument refers to.
C25_RemovesRangeOneToTheFront ==
    /\ (last.name = "treeEraseReverseRange" /\ last.m < Len(last.preTree.keys)) =>
          /\ last.status = "ok"
          /\ tree.keys = WithoutReverseRange(last.preTree, last.n + 1, last.m + 1)
    /\ (last.name = "treeEraseReverseRange" /\ last.m = Len(last.preTree.keys)) =>
          last.status = "undefined"
    /\ last.name = "treeEraseReverse" =>
          /\ last.status = "ok"
          /\ tree.keys = WithoutReverseRange(last.preTree, last.n, last.n + 1)

\* erase(rbegin(), rbegin() + 1) on a set of three keys removes the middle
\* key and keeps the largest.
C25_Witness ==
    /\ last.name = "treeEraseReverseRange"
    /\ ~last.preTree.multi
    /\ last.preTree.keys = <<0, 1, 2>>
    /\ last.n = 0
    /\ last.m = 1
    /\ tree.keys = <<0, 2>>

(***************************************************************************)
(* C26: for set and multiset, erase(k) returns the value count(k) had      *)
(* before the call, removes exactly the elements equivalent to k and no    *)
(* other, and leaves count(k) = 0; when it returns 0 the container is      *)
(* unchanged.  multiset::equalRangeSmall(k) returns the pair that          *)
(* equalRange(k) returns.                                                  *)
(***************************************************************************)
\* The keys of s that are not equivalent to k, in order.
RECURSIVE WithoutKey(_, _)
WithoutKey(s, k) ==
    IF s = <<>> THEN <<>>
    ELSE IF ~mcompare(Head(s), k) /\ ~mcompare(k, Head(s)) THEN WithoutKey(Tail(s), k)
    ELSE <<Head(s)>> \o WithoutKey(Tail(s), k)

C26_EraseKeyReturnsCount ==
    /\ last.name = "treeEraseKey" =>
          /\ last.status = "ok"
          /\ last.ret = count(last.preTree, last.n)
          /\ last.ret = Len(last.preTree.keys) - Len(WithoutKey(last.preTree.keys, last.n))
          /\ tree.keys = WithoutKey(last.preTree.keys, last.n)
          /\ tree.multi = last.preTree.multi
          /\ count(tree, last.n) = 0
          /\ (last.ret = 0 => tree = last.preTree)
    /\ last.name = "treeEqualRangeSmall" => last.ret = last.range

\* A multiset holding a key twice and another key loses both copies and
\* returns 2.
C26_Witness ==
    /\ last.name = "treeEraseKey"
    /\ last.preTree.multi
    /\ last.ret = 2
    /\ Len(tree.keys) >= 1
    /\ Len(last.preTree.keys) = Len(tree.keys) + 2

(***************************************************************************)
(* C27: in every state reachable by the public operations, reserve and     *)
(* setCapacity with any argument included, empty() is true iff size() = 0, *)
(* size() never exceeds wordCount*W nor wraps below 0 (wordCount = 0       *)
(* implies freeBitCount = 0), and capacity() >= size().                    *)
(***************************************************************************)
C27_SizeWithinStore ==
    /\ empty(Self) <=> (size(Self) = 0)
    /\ size(Self) <= Len(mContainer) * kBitCount
    /\ (Len(mContainer) = 0 => mFreeBitCount = 0)
    /\ capacity(Self) >= size(Self)

\* setCapacity has emptied the word store of a sequence that had free bits:
\* empty() is true and size() is not 0.
C27_Witness ==
    /\ last.name = "setCapacity"
    /\ last.status = "ok"
    /\ Len(mContainer) = 0
    /\ mFreeBitCount > 0
    /\ empty(Self)
    /\ size(Self) > capacity(Self)

(***************************************************************************)
(* C28: in every reachable state end() - begin() = size(): end() is the    *)
(* coordinate (wordCount, 0) when freeBitCount = 0 and                     *)
(* (wordCount - 1, W - freeBitCount) otherwise, begin() = end() exactly    *)
(* when the sequence holds no bits, and advancing begin() by ++ exactly    *)
(* size() times reaches end() and visits the bits in index order.          *)
(***************************************************************************)
\* The coordinate (word, bit) of an iterator into bv.
Coordinate(bv, it) == <<it.mpBitWord - bv.mpBegin, it.mnBitIndex>>

\* end() is a position of the store, or the one behind its last word, only
\* when the store has a word or no free bit is counted (HasStorage); the
\* walk from begin() is taken only then.
C28_EndMinusBeginIsSize ==
    /\ HasStorage(Self)
    /\ ItDiff(end(Self), begin(Self)) = size(Self)
    /\ Coordinate(Self, end(Self)) =
          IF mFreeBitCount = 0 THEN <<Len(mContainer), 0>>
          ELSE <<Len(mContainer) - 1, kBitCount - mFreeBitCount>>
    /\ ItEq(begin(Self), end(Self)) <=> (LogicalSize(Self) = 0)
    /\ ItEq(ItAt(Self, size(Self)), end(Self))
    /\ \A i \in 0 .. (size(Self) - 1) :
          /\ ItDeref(Self, ItAt(Self, i)) = BitAt(Self, i)
          /\ ItNe(ItAt(Self, i), end(Self))

\* After setCapacity(0) on a sequence with free bits end() lies in front of
\* begin() and size() is not their distance.
C28_Witness ==
    /\ last.name = "setCapacity"
    /\ ~HasStorage(Self)
    /\ ItLt(end(Self), begin(Self))
    /\ ItDiff(end(Self), begin(Self)) # size(Self)

(***************************************************************************)
(* C29: resize(n, value) with n <= size() behaves like resize(n): it       *)
(* terminates, leaves size() = n, wordCount = ceil(n/W) and                *)
(* freeBitCount = wordCount*W - n, and leaves every bit at an index < n    *)
(* unchanged, although the count of new bits n - size() is computed in     *)
(* unsigned arithmetic and wraps when n < size().                          *)
(***************************************************************************)
C29_ResizeValueShrinks ==
    (last.name = "resizeValue" /\ last.n <= size(last.pre)) =>
        /\ last.status = "ok"
        /\ size(Self) = last.n
        /\ Len(mContainer) = WordsFor(last.n)
        /\ mFreeBitCount = (Len(mContainer) * kBitCount) - last.n
        /\ Bits(Self) = SubSeq(Bits(last.pre), 1, last.n)
        /\ \A e \in Env :
              LET r == resize(last.pre, last.n, e)
              IN  /\ r.ok
                  /\ size(r.bv) = size(Self)
                  /\ Bits(r.bv) = Bits(Self)
                  /\ r.bv.mFreeBitCount = mFreeBitCount
                  /\ Len(r.bv.mContainer) = Len(mContainer)
                  /\ r.bv.mCapacity = mCapacity
                  /\ r.bv.mpBegin = mpBegin

\* A shrinking call whose new size is not a multiple of W: the count of new
\* bits has wrapped and the fill loop has run over the free bits of the last
\* word, which now hold value.
C29_Witness ==
    /\ last.name = "resizeValue"
    /\ last.status = "ok"
    /\ last.n < size(last.pre)
    /\ last.n % kBitCount # 0
    /\ (last.n - size(last.pre)) % kSizeTypeMod > MaxBits
    /\ last.value
    /\ mContainer[Len(mContainer)] = WordMax
    /\ last.pre.mContainer[Len(mContainer)] # WordMax
    /\ size(Self) = last.n

(***************************************************************************)
(* C30: for two iterators a and b with bit offsets in [0, W) into the same *)
(* storage the comparisons agree with the signed distance: a < b iff       *)
(* b - a > 0, a = b iff b - a = 0, a <= b iff b - a >= 0, exactly one of   *)
(* a < b, a = b, a > b holds, and the distance is the exact signed value   *)
(* even when the unsigned intermediate wraps.                              *)
(***************************************************************************)
ExactlyOne(p, q, r) ==
    (p /\ ~q /\ ~r) \/ (~p /\ q /\ ~r) \/ (~p /\ ~q /\ r)

C30_OrderAgreesWithDistance ==
    last.name = "itCompare" =>
        /\ last.it.mnBitIndex \in 0 .. (kBitCount - 1)
        /\ last.b.mnBitIndex \in 0 .. (kBitCount - 1)
        /\ last.lt <=> (last.d > 0)
        /\ last.eq <=> (last.d = 0)
        /\ last.le <=> (last.d >= 0)
        /\ last.ne <=> (last.d # 0)
        /\ last.ge <=> (last.d <= 0)
        /\ ExactlyOne(last.lt, last.eq, last.gt)
        /\ last.d = last.m - last.n

\* b lies in the word in front of a's and has the larger bit offset: the sum
\* taken in size_type wraps, and the distance is negative.
C30_Witness ==
    /\ last.name = "itCompare"
    /\ last.b.mpBitWord < last.it.mpBitWord
    /\ last.it.mnBitIndex < last.b.mnBitIndex
    /\ ItDiffUnsigned(last.b, last.it) > MaxBits
    /\ last.d < 0
    /\ last.gt

====
